---------------------------- MODULE Spec2Model ----------------------------
(***************************************************************************)
(* State-machine model of the sectool daemon (llm-security-toolbox):       *)
(*   - socket-path validation and the credential-checking listener         *)
(*     (service/socket_security*.go),                                      *)
(*   - the single-instance lifecycle and `init --reset`                    *)
(*     (initialize/init.go),                                               *)
(*   - the flow cache, proxy listing and the replay pipeline               *)
(*     (service/mcp_server.go: handleProxyList, handleReplaySend).         *)
(* Each subsystem has its own specification; the variables of the other    *)
(* subsystems stay at their idle values.                                   *)
(***************************************************************************)
EXTENDS Integers, Sequences, FiniteSets, TLC

VARIABLES
    platform,        \* GOOS of the build: selects the socket_security_*.go file
    dirInfo,         \* what os.Lstat(filepath.Dir(socketPath)) observes
    validateResult,  \* result of ValidateSocketPathSecurity ("pending" before the call)
    conns,           \* connection slot -> connection record (secure listener)
    backlog,         \* kernel accept queue of the underlying listener (FIFO of slots)
    listenerOpen,    \* the underlying net.Listener has not been closed
    serving,         \* the Serve loop is still calling Accept
    lastReturn,      \* what the last return of secureListener.Accept carried
    rejectLog,       \* number of "rejected connection" log lines, capped
    dstate,          \* daemon -> lifecycle state
    dphase,          \* daemon -> step of Starting it is about to take
    diag,            \* daemon -> diagnostic of a failed start
    dfd,             \* daemon -> inode of the PID file it holds open (0: none)
    dlocked,         \* daemon -> it holds the exclusive flock on dfd
    pidFile,         \* inode linked at <state-root>/service/pid (0: no such file)
    sockFile,        \* daemon whose socket is linked at service/socket (0: none)
    nextInode,       \* next fresh inode number
    resetPc,         \* position of `init --reset` inside performReset
    resetsLeft,      \* how many more resets the operator runs
    history,         \* the remote proxy's history: sequence of raw requests
    flowCache,       \* flow store: flow-id -> [offset, hash] (hash 0: unbound)
    nextFlowId,      \* next fresh flow identifier
    lst,             \* lister -> progress of its proxy.list call and its last response
    replayStore,     \* request store: replay-id -> stored response entry
    lastSend,        \* the replay_send call being answered and its outcome
    lastGet,         \* the replay_get call being answered and its outcome
    oastSess,        \* OAST registry: session-id -> session (ring, cursor, dropped count)
    nextSessionId,   \* next fresh session identifier
    oastClock,       \* creation time of the newest session
    pollers,         \* client -> its oast poll call (blocked in a long-poll or answered)
    lastOast,        \* the oast create/list/get/delete call being answered
    rules,           \* the proxy adapter's match/replace rules, in the adapter's order
    nextRuleId,      \* next fresh rule identifier
    lastRule,        \* the proxy_rule_* call being answered
    cfgFile,         \* bytes of .sectool/config.json as a reader finds them now
    savePc,          \* position of Config.Save inside os.WriteFile
    loaded,          \* what the last config.Load returned
    inflight,        \* daemon -> number of request handlers running
    adaptersOpen,    \* daemon -> its adapters are open
    drainExpired,    \* daemon -> the drain deadline has passed
    statusInput,     \* the response bytes handed to parseResponseStatus, by their parts
    statusResult,    \* what parseResponseStatus returned for them ("pending" before)
    rw               \* one call of a rewriting helper or store method: function, input, output

sockVars == <<dirInfo, validateResult>>
lsnVars  == <<conns, backlog, listenerOpen, serving, lastReturn, rejectLog>>
dmnVars  == <<dstate, dphase, diag, dfd, dlocked, pidFile, sockFile, nextInode,
              resetPc, resetsLeft>>
flowVars == <<history, flowCache, nextFlowId, lst>>
rpVars   == <<replayStore, lastSend, lastGet>>
oastVars == <<oastSess, nextSessionId, oastClock, pollers, lastOast>>
ruleVars == <<rules, nextRuleId, lastRule>>
cfgVars  == <<cfgFile, savePc, loaded>>
drainVars == <<inflight, adaptersOpen, drainExpired>>
parseVars == <<statusInput, statusResult>>
rwVars == <<rw>>
moreVars == <<ruleVars, cfgVars, drainVars, parseVars, rwVars>>
vars     == <<platform, sockVars, lsnVars, dmnVars, flowVars, rpVars, oastVars, moreVars>>

Platforms == {"linux", "darwin", "other"}

\* The user identifiers that matter: the daemon's own (os.Getuid()) and others.
UIDs      == {"uid_daemon", "uid_other"}
Getuid    == "uid_daemon"

-----------------------------------------------------------------------------
(***************************************************************************)
(* Bit arithmetic on permission words (os.FileMode.Perm(), 9 bits).        *)
(***************************************************************************)
RECURSIVE BitAnd(_, _)
BitAnd(a, b) ==
    IF a = 0 \/ b = 0 THEN 0
    ELSE (IF a % 2 = 1 /\ b % 2 = 1 THEN 1 ELSE 0) + 2 * BitAnd(a \div 2, b \div 2)

PermAll         == 511   \* 0777
GroupOtherWrite == 18    \* 0022

-----------------------------------------------------------------------------
(***************************************************************************)
(* ValidateSocketPathSecurity                                              *)
(***************************************************************************)

\* Results of os.Lstat on the socket's parent directory. Lstat does not follow
\* links, so a symbolic link is reported as a link and never as a directory.
MissingInfo == [exists |-> FALSE, kind |-> "none", uid |-> Getuid, perm |-> 0]

LstatResults ==
    {MissingInfo} \cup
    [exists : {TRUE}, kind : {"dir", "symlink", "file"}, uid : UIDs, perm : 0..PermAll]

\* info.Mode()&os.ModeSymlink != 0
ModeSymlink(info) == info.kind = "symlink"

\* info.IsDir()
IsDir(info) == info.kind = "dir"

\* getFileOwnerUID: stat.Uid on linux and darwin (the *syscall.Stat_t assertion
\* always succeeds for an os.Lstat result there); on every other platform the
\* current UID, which makes the caller's ownership comparison pass.
GetFileOwnerUIDNoFallback(goos, info) == [uid |-> info.uid, err |-> FALSE]

GetFileOwnerUID(goos, info) ==
    IF goos \in {"linux", "darwin"}
    THEN [uid |-> info.uid, err |-> FALSE]
    ELSE [uid |-> Getuid, err |-> FALSE]

ValidateGroupBitOnly(goos, info) ==
    IF ~info.exists THEN "err_stat"
    ELSE IF ModeSymlink(info) THEN "err_symlink"
    ELSE IF ~IsDir(info) THEN "err_not_dir"
    ELSE LET owner == GetFileOwnerUID(goos, info) IN
         IF owner.err THEN "err_owner_lookup"
         ELSE IF owner.uid # Getuid THEN "err_owner"
         ELSE IF BitAnd(info.perm, 16) # 0 THEN "err_perm"
         ELSE "ok"

ValidateSocketPathSecurity(goos, info) ==
    IF ~info.exists THEN "err_stat"
    ELSE IF ModeSymlink(info) THEN "err_symlink"
    ELSE IF ~IsDir(info) THEN "err_not_dir"
    ELSE LET owner == GetFileOwnerUID(goos, info) IN
         IF owner.err THEN "err_owner_lookup"
         ELSE IF owner.uid # Getuid THEN "err_owner"
         ELSE IF BitAnd(info.perm, GroupOtherWrite) # 0 THEN "err_perm"
         ELSE "ok"

SockInit ==
    /\ dirInfo \in LstatResults
    /\ validateResult = "pending"

SockIdle ==
    /\ dirInfo = MissingInfo
    /\ validateResult = "pending"

\* The daemon validates the socket directory once, before binding.
ValidateSocket ==
    /\ validateResult = "pending"
    /\ validateResult' = ValidateSocketPathSecurity(platform, dirInfo)
    /\ UNCHANGED <<platform, dirInfo, lsnVars, dmnVars, flowVars, rpVars, oastVars, moreVars>>

-----------------------------------------------------------------------------
(***************************************************************************)
(* secureListener                                                          *)
(***************************************************************************)
MaxConns     == 2   \* connection slots in flight at once (slots are reused)
MaxRejectLog == 2   \* cap of the rejection-log counter

ConnIds == 1..MaxConns

\* fault: which step of reading the peer credentials fails, if any.
CredFaults == {"none", "control", "getsockopt"}

FreeConn == [state |-> "free", uid |-> Getuid, fault |-> "none", rd |-> 0, wr |-> 0]

\* verifyPeerCredentials: nil ("ok") or the error. The listener is a unix
\* listener, so the *net.UnixConn assertion and SyscallConn succeed.
VerifyNoUIDCheck(goos, c) ==
    IF goos \notin {"linux", "darwin"} THEN "ok"
    ELSE IF c.fault = "control" THEN "err_control"
    ELSE IF c.fault = "getsockopt" THEN "err_peer_credentials"
    ELSE "ok"

VerifyPeerCredentials(goos, c) ==
    IF goos \notin {"linux", "darwin"} THEN "ok"
    ELSE IF c.fault = "control" THEN "err_control"
    ELSE IF c.fault = "getsockopt" THEN "err_peer_credentials"
    ELSE IF c.uid # Getuid THEN "err_uid_mismatch"
    ELSE "ok"

\* What Accept does after closing a rejected connection: `continue`.
RejectReturnsError == "return_err"

AfterReject == "continue"

NoReturn == [kind |-> "none", uid |-> Getuid, fault |-> "none", rejectsBefore |-> 0]

LsnInit ==
    /\ conns = [c \in ConnIds |-> FreeConn]
    /\ backlog = <<>>
    /\ listenerOpen = TRUE
    /\ serving = TRUE
    /\ lastReturn = NoReturn
    /\ rejectLog = 0

LsnIdle ==
    /\ conns = [c \in ConnIds |-> FreeConn]
    /\ backlog = <<>>
    /\ listenerOpen = FALSE
    /\ serving = FALSE
    /\ lastReturn = NoReturn
    /\ rejectLog = 0

\* A peer connects to the socket: the kernel queues the connection.
Connect(c, uid, fault) ==
    /\ listenerOpen
    /\ conns[c].state \in {"free", "served", "rejected"}
    /\ conns' = [conns EXCEPT ![c] =
                    [state |-> "backlog", uid |-> uid, fault |-> fault, rd |-> 0, wr |-> 0]]
    /\ backlog' = Append(backlog, c)
    /\ UNCHANGED <<flowVars, rpVars, oastVars, moreVars, platform, sockVars, dmnVars, listenerOpen, serving, lastReturn, rejectLog>>

\* One iteration of Accept's loop with a queued connection: verify, then either
\* return it or log, close and continue.
AcceptConn ==
    /\ serving /\ listenerOpen
    /\ backlog # <<>>
    /\ LET c == Head(backlog)
           v == VerifyPeerCredentials(platform, conns[c])
       IN /\ backlog' = Tail(backlog)
          /\ IF v = "ok"
             THEN /\ conns' = [conns EXCEPT ![c].state = "accepted"]
                  /\ lastReturn' = [kind |-> "conn", uid |-> conns[c].uid,
                                  fault |-> conns[c].fault, rejectsBefore |-> rejectLog]
                  /\ UNCHANGED <<rejectLog, serving>>
             ELSE /\ conns' = [conns EXCEPT ![c].state = "rejected"]
                  /\ rejectLog' = IF rejectLog < MaxRejectLog THEN rejectLog + 1 ELSE rejectLog
                  /\ IF AfterReject = "continue"
                     THEN UNCHANGED <<lastReturn, serving>>
                     ELSE /\ lastReturn' = [NoReturn EXCEPT !.kind = "err_rejected"]
                          /\ serving' = FALSE
    /\ UNCHANGED <<flowVars, rpVars, oastVars, moreVars, platform, sockVars, dmnVars, listenerOpen>>

\* The underlying listener is closed (shutdown).
ListenerClose ==
    /\ listenerOpen
    /\ listenerOpen' = FALSE
    /\ UNCHANGED <<flowVars, rpVars, oastVars, moreVars, platform, sockVars, dmnVars, conns, backlog, serving, lastReturn, rejectLog>>

\* sl.Listener.Accept returns an error: Accept returns (nil, err) and Serve ends.
AcceptError ==
    /\ serving /\ ~listenerOpen
    /\ serving' = FALSE
    /\ lastReturn' = [NoReturn EXCEPT !.kind = "err_listener"]
    /\ UNCHANGED <<flowVars, rpVars, oastVars, moreVars, platform, sockVars, dmnVars, conns, backlog, listenerOpen, rejectLog>>

\* The server's handler for a connection Accept returned: reads the request,
\* writes the envelope, closes.
ServeConn(c) ==
    /\ conns[c].state = "accepted"
    /\ conns' = [conns EXCEPT ![c].state = "served", ![c].rd = 1, ![c].wr = 1]
    /\ UNCHANGED <<flowVars, rpVars, oastVars, moreVars, platform, sockVars, dmnVars, backlog, listenerOpen, serving, lastReturn, rejectLog>>

-----------------------------------------------------------------------------
(***************************************************************************)
(* Daemon lifecycle, PID lock and `init --reset`                           *)
(***************************************************************************)
NDaemons  == 2   \* daemon processes started in the one working directory
MaxInflight == 2 \* handlers one daemon runs at a time
MaxResets == 1   \* runs of `sectool init --reset`

Daemons == 1..NDaemons

\* flock(LOCK_EX|LOCK_NB) on inode i by daemon d: the lock belongs to the open
\* file, so it succeeds unless another process holds a lock on the same inode.
FlockAlwaysGranted(d, i) == TRUE

FlockGranted(d, i) == \A e \in Daemons \ {d} : ~(dlocked[e] /\ dfd[e] = i)

DmnInit ==
    /\ dstate = [d \in Daemons |-> "NotStarted"]
    /\ dphase = [d \in Daemons |-> "lock"]
    /\ diag = [d \in Daemons |-> "none"]
    /\ dfd = [d \in Daemons |-> 0]
    /\ dlocked = [d \in Daemons |-> FALSE]
    /\ pidFile = 0
    /\ sockFile = 0
    /\ nextInode = 1
    /\ resetPc = "idle"
    /\ resetsLeft = MaxResets

DmnIdle ==
    /\ dstate = [d \in Daemons |-> "NotStarted"]
    /\ dphase = [d \in Daemons |-> "lock"]
    /\ diag = [d \in Daemons |-> "none"]
    /\ dfd = [d \in Daemons |-> 0]
    /\ dlocked = [d \in Daemons |-> FALSE]
    /\ pidFile = 0
    /\ sockFile = 0
    /\ nextInode = 1
    /\ resetPc = "idle"
    /\ resetsLeft = 0

\* A client found no live daemon on the socket and spawned one in daemon mode.
DaemonStart(d) ==
    /\ dstate[d] = "NotStarted"
    /\ dstate' = [dstate EXCEPT ![d] = "Starting"]
    /\ UNCHANGED <<flowVars, rpVars, oastVars, moreVars, platform, sockVars, lsnVars, dphase, diag, dfd, dlocked, pidFile,
                   sockFile, nextInode, resetPc, resetsLeft>>

\* Starting, step 1: create the state root, open the PID file (creating it when
\* the path names no file) and take the whole-file exclusive lock; failure is the
\* fatal "already running". The PID is written after the lock succeeds.
DaemonLock(d) ==
    /\ dstate[d] = "Starting" /\ dphase[d] = "lock"
    /\ LET i == IF pidFile = 0 THEN nextInode ELSE pidFile IN
       /\ pidFile' = i
       /\ nextInode' = IF pidFile = 0 THEN nextInode + 1 ELSE nextInode
       /\ IF FlockGranted(d, i)
          THEN /\ dfd' = [dfd EXCEPT ![d] = i]
               /\ dlocked' = [dlocked EXCEPT ![d] = TRUE]
               /\ dphase' = [dphase EXCEPT ![d] = "adapters"]
               /\ UNCHANGED <<dstate, diag>>
          ELSE /\ dstate' = [dstate EXCEPT ![d] = "Stopped"]
               /\ diag' = [diag EXCEPT ![d] = "already running"]
               /\ UNCHANGED <<dfd, dlocked, dphase>>
    /\ UNCHANGED <<flowVars, rpVars, oastVars, moreVars, platform, sockVars, lsnVars, sockFile, resetPc, resetsLeft>>

\* Starting, step 2: open the adapters; failure stops the daemon and, with the
\* process exit, releases the lock.
DaemonOpenAdapters(d, ok) ==
    /\ dstate[d] = "Starting" /\ dphase[d] = "adapters"
    /\ IF ok
       THEN /\ dphase' = [dphase EXCEPT ![d] = "bind"]
            /\ adaptersOpen' = [adaptersOpen EXCEPT ![d] = TRUE]
            /\ UNCHANGED <<dstate, diag, dlocked>>
       ELSE /\ dstate' = [dstate EXCEPT ![d] = "Stopped"]
            /\ diag' = [diag EXCEPT ![d] = "adapter"]
            /\ dlocked' = [dlocked EXCEPT ![d] = FALSE]
            /\ UNCHANGED <<dphase, adaptersOpen>>
    /\ UNCHANGED <<flowVars, rpVars, oastVars, ruleVars, cfgVars, parseVars, rwVars, inflight,
                   drainExpired, platform, sockVars, lsnVars, dfd, pidFile, sockFile, nextInode,
                   resetPc, resetsLeft>>

\* Starting, step 3: validate the socket directory and bind the socket.
DaemonBind(d, ok) ==
    /\ dstate[d] = "Starting" /\ dphase[d] = "bind"
    /\ IF ok
       THEN /\ dstate' = [dstate EXCEPT ![d] = "Ready"]
            /\ sockFile' = d
            /\ UNCHANGED <<diag, dlocked>>
       ELSE /\ dstate' = [dstate EXCEPT ![d] = "Stopped"]
            /\ diag' = [diag EXCEPT ![d] = "bind"]
            /\ dlocked' = [dlocked EXCEPT ![d] = FALSE]
            /\ UNCHANGED sockFile
    /\ adaptersOpen' = [adaptersOpen EXCEPT ![d] = ok]
    /\ UNCHANGED <<flowVars, rpVars, oastVars, ruleVars, cfgVars, parseVars, rwVars, inflight,
                   drainExpired, platform, sockVars, lsnVars, dphase, dfd, pidFile, nextInode,
                   resetPc, resetsLeft>>

\* SIGINT/SIGTERM: Ready -> Draining.
DaemonSignal(d) ==
    /\ dstate[d] = "Ready"
    /\ dstate' = [dstate EXCEPT ![d] = "Draining"]
    /\ UNCHANGED <<flowVars, rpVars, oastVars, moreVars, platform, sockVars, lsnVars, dphase, diag, dfd, dlocked, pidFile,
                   sockFile, nextInode, resetPc, resetsLeft>>

\* The explicit shutdown operation: Ready -> Draining.
DaemonStop(d) ==
    /\ dstate[d] = "Ready"
    /\ dstate' = [dstate EXCEPT ![d] = "Draining"]
    /\ UNCHANGED <<flowVars, rpVars, oastVars, moreVars, platform, sockVars, lsnVars, dphase, diag, dfd, dlocked, pidFile,
                   sockFile, nextInode, resetPc, resetsLeft>>

\* Connections are accepted while the daemon is Ready.
AcceptingWhileDraining(d) == dstate[d] \in {"Ready", "Draining"}

Accepting(d) == dstate[d] = "Ready"

\* A connection is accepted and its handler starts.
HandlerBegin(d) ==
    /\ Accepting(d)
    /\ inflight[d] < MaxInflight
    /\ inflight' = [inflight EXCEPT ![d] = @ + 1]
    /\ UNCHANGED <<flowVars, rpVars, oastVars, ruleVars, cfgVars, parseVars, rwVars, adaptersOpen,
                   drainExpired, platform, sockVars, lsnVars, dmnVars>>

\* A handler of a running daemon finishes.
HandlerEnd(d) ==
    /\ dstate[d] \in {"Ready", "Draining"}
    /\ inflight[d] > 0
    /\ inflight' = [inflight EXCEPT ![d] = @ - 1]
    /\ UNCHANGED <<flowVars, rpVars, oastVars, ruleVars, cfgVars, parseVars, rwVars, adaptersOpen,
                   drainExpired, platform, sockVars, lsnVars, dmnVars>>

\* The drain deadline passes.
DrainDeadline(d) ==
    /\ dstate[d] = "Draining"
    /\ ~drainExpired[d]
    /\ drainExpired' = [drainExpired EXCEPT ![d] = TRUE]
    /\ UNCHANGED <<flowVars, rpVars, oastVars, ruleVars, cfgVars, parseVars, rwVars, adaptersOpen,
                   inflight, platform, sockVars, lsnVars, dmnVars>>

\* Draining waits for the in-flight handlers up to the deadline.
DrainDone(d) == inflight[d] = 0 \/ drainExpired[d]

\* Draining ends: adapters closed, the daemon's socket unlinked, lock released.
\* Handlers still in flight at the deadline end with the process.
DaemonExit(d) ==
    /\ dstate[d] = "Draining"
    /\ DrainDone(d)
    /\ dstate' = [dstate EXCEPT ![d] = "Stopped"]
    /\ dlocked' = [dlocked EXCEPT ![d] = FALSE]
    /\ sockFile' = IF sockFile = d THEN 0 ELSE sockFile
    /\ adaptersOpen' = [adaptersOpen EXCEPT ![d] = FALSE]
    /\ UNCHANGED <<flowVars, rpVars, oastVars, ruleVars, cfgVars, parseVars, rwVars, inflight,
                   drainExpired, platform, sockVars, lsnVars, dphase, diag, dfd, pidFile, nextInode,
                   resetPc, resetsLeft>>

\* performReset, client.CheckHealth(ctx) under the 5 s deadline: it can succeed
\* only when a Ready daemon answers on the socket path, and it can fail in any
\* state (no socket, refused, deadline exceeded).
ResetProbe(healthy) ==
    /\ resetPc = "idle" /\ resetsLeft > 0
    /\ healthy => (sockFile # 0 /\ dstate[sockFile] = "Ready")
    /\ resetPc' = IF healthy THEN "stop" ELSE "remove"
    /\ resetsLeft' = resetsLeft - 1
    /\ UNCHANGED <<flowVars, rpVars, oastVars, moreVars, platform, sockVars, lsnVars, dstate, dphase, diag, dfd, dlocked,
                   pidFile, sockFile, nextInode>>

\* performReset, `_, _ = client.Stop(ctx)`: the result is discarded; the request
\* reaches the daemon (which starts draining) or is lost to the deadline.
ResetStop(delivered) ==
    /\ resetPc = "stop"
    /\ delivered => (sockFile # 0 /\ dstate[sockFile] = "Ready")
    /\ dstate' = IF delivered THEN [dstate EXCEPT ![sockFile] = "Draining"] ELSE dstate
    /\ resetPc' = "remove"
    /\ UNCHANGED <<flowVars, rpVars, oastVars, moreVars, platform, sockVars, lsnVars, dphase, diag, dfd, dlocked, pidFile,
                   sockFile, nextInode, resetsLeft>>

\* performReset, os.RemoveAll(paths.SectoolDir): the PID file and the socket are
\* unlinked; open descriptors and the locks on them are untouched.
ResetRemoveAll ==
    /\ resetPc = "remove"
    /\ pidFile' = 0
    /\ sockFile' = 0
    /\ resetPc' = "idle"
    /\ UNCHANGED <<flowVars, rpVars, oastVars, moreVars, platform, sockVars, lsnVars, dstate, dphase, diag, dfd, dlocked,
                   nextInode, resetsLeft>>

-----------------------------------------------------------------------------
(***************************************************************************)
(* HTTP requests and JSON bodies                                           *)
(*                                                                         *)
(* A raw request is kept in parsed form: start line (method, path, query,  *)
(* version), header block (sequence of name/value lines) and body (sequence *)
(* of bytes, one character each).                                          *)
(***************************************************************************)
Header(n, v) == [name |-> n, value |-> v]

\* Header names compare case-insensitively.
FoldName(n) ==
    CASE n \in {"Host", "host", "HOST"} -> "host"
      [] n \in {"Content-Length", "content-length"} -> "content-length"
      [] OTHER -> n

HasHeader(hs, n) == \E k \in 1..Len(hs) : FoldName(hs[k].name) = FoldName(n)

HeaderValue(hs, n) ==
    hs[CHOOSE k \in 1..Len(hs) :
           /\ FoldName(hs[k].name) = FoldName(n)
           /\ \A j \in 1..(k - 1) : FoldName(hs[j].name) # FoldName(n)].value

\* strconv.Itoa and its inverse on the lengths that occur.
Digits == <<"0", "1", "2", "3", "4", "5", "6", "7", "8", "9">>

RECURSIVE Itoa(_)
Itoa(n) == IF n < 10 THEN Digits[n + 1] ELSE Itoa(n \div 10) \o Digits[(n % 10) + 1]

Atoi(str) ==
    IF \E n \in 0..99 : Itoa(n) = str
    THEN CHOOSE n \in 0..99 : Itoa(n) = str
    ELSE -1

\* JSON objects with keys among a, b and one-digit numbers as values;
\* json.Marshal writes the keys of a map in sorted order, without spaces.
JSONKeys == <<"a", "b">>
JSONVals == {"1", "2", "3"}
JSONObjects == UNION {[ks -> JSONVals] : ks \in SUBSET {"a", "b"}}

RECURSIVE SerializeMembers(_, _, _)
SerializeMembers(o, k, first) ==
    IF k > Len(JSONKeys) THEN <<>>
    ELSE IF JSONKeys[k] \in DOMAIN o
         THEN (IF first THEN <<>> ELSE <<",">>)
                  \o <<"\"", JSONKeys[k], "\"", ":", o[JSONKeys[k]]>>
                  \o SerializeMembers(o, k + 1, FALSE)
         ELSE SerializeMembers(o, k + 1, first)

SerializeJSON(o) == <<"{">> \o SerializeMembers(o, 1, TRUE) \o <<"}">>

ParseJSON(body) ==
    IF \E o \in JSONObjects : SerializeJSON(o) = body
    THEN [ok |-> TRUE, obj |-> CHOOSE o \in JSONObjects : SerializeJSON(o) = body]
    ELSE [ok |-> FALSE, obj |-> <<>>]

\* The captured requests the remote proxy can hold.
RequestPool ==
    << [method |-> "POST", path |-> "/api", query |-> <<>>, version |-> "HTTP/1.1",
        headers |-> <<Header("Host", "a.test"), Header("Content-Length", "13")>>,
        body |-> SerializeJSON([k \in {"a", "b"} |-> IF k = "a" THEN "1" ELSE "2"])],
       [method |-> "GET", path |-> "/x", query |-> <<[name |-> "id", value |-> "1"]>>,
        version |-> "HTTP/2",
        headers |-> <<Header("host", "b.test")>>,
        body |-> <<>>],
       [method |-> "PUT", path |-> "/y", query |-> <<>>, version |-> "HTTP/2.0",
        headers |-> <<Header("Host", "c.test"), Header("content-length", "2")>>,
        body |-> <<"h", "i">>] >>

Requests == {RequestPool[k] : k \in 1..Len(RequestPool)}

NoRequest == [method |-> "", path |-> "", query |-> <<>>, version |-> "",
              headers |-> <<>>, body |-> <<>>]

\* Content hash over the exact request bytes (collision-free on the pool).
ContentHash(req) == CHOOSE k \in 1..Len(RequestPool) : RequestPool[k] = req

-----------------------------------------------------------------------------
(***************************************************************************)
(* Remote history, flow cache and proxy.list                               *)
(***************************************************************************)
MaxHistory == 2   \* entries the remote history holds
MaxFlowIds == 4   \* flow identifiers that can be minted

FlowIds == 1..MaxFlowIds
Listers == {1, 2}   \* two clients calling concurrently

Unbound == [offset |-> 0, hash |-> 0]

\* A client is idle or inside a proxy.list call at offset i; rid is the flow
\* identifier the daemon last returned to it (0: none).
IdleLister == [pc |-> "idle", i |-> 0, rid |-> 0]

Bound(cache, id) == cache[id].hash # 0

\* The identifiers whose stored hash is h.
IdsOfHash(cache, h) == {id \in FlowIds : cache[id].hash = h}

\* Allocation for one listed entry (under the cache's write lock): an entry with
\* a known hash reuses its identifier and has its offset updated; otherwise a
\* fresh identifier is minted and stored.
FlowRegisterAlwaysMint(cache, next, h, off) ==
    [cache |-> [cache EXCEPT ![next] = [offset |-> off, hash |-> h]],
     next |-> next + 1, id |-> next]

FlowRegisterNoRebind(cache, next, h, off) ==
    IF IdsOfHash(cache, h) # {}
    THEN [cache |-> cache, next |-> next, id |-> CHOOSE x \in IdsOfHash(cache, h) : TRUE]
    ELSE [cache |-> [cache EXCEPT ![next] = [offset |-> off, hash |-> h]],
          next |-> next + 1, id |-> next]

FlowRegister(cache, next, h, off) ==
    IF IdsOfHash(cache, h) # {}
    THEN LET id == CHOOSE x \in IdsOfHash(cache, h) : TRUE IN
         [cache |-> [cache EXCEPT ![id].offset = off], next |-> next, id |-> id]
    ELSE [cache |-> [cache EXCEPT ![next] = [offset |-> off, hash |-> h]],
          next |-> next + 1, id |-> next]

\* flowStore.Lookup(flowID): the stored entry, read under the read lock.
FlowLookup(cache, id) ==
    IF id \in FlowIds /\ Bound(cache, id)
    THEN [ok |-> TRUE, entry |-> cache[id]]
    ELSE [ok |-> FALSE, entry |-> Unbound]

\* GetProxyHistory(ctx, count, offset): offsets are 0-based.
GetProxyHistory(hist, count, offset) ==
    IF offset >= Len(hist) THEN <<>>
    ELSE SubSeq(hist, offset + 1, IF offset + count > Len(hist) THEN Len(hist) ELSE offset + count)

FlowInit ==
    /\ history = <<>>
    /\ flowCache = [id \in FlowIds |-> Unbound]
    /\ nextFlowId = 1
    /\ lst = [l \in Listers |-> IdleLister]

FlowIdle == FlowInit

\* The browser sends a request through the proxy: the history grows.
HistoryAppend(req) ==
    /\ Len(history) < MaxHistory
    /\ history' = Append(history, req)
    /\ UNCHANGED <<platform, sockVars, lsnVars, dmnVars, flowCache, nextFlowId, lst, rpVars, oastVars, moreVars>>

\* The remote history shifts (proxy restarted or its oldest entry deleted).
HistoryDropFirst ==
    /\ history # <<>>
    /\ history' = Tail(history)
    /\ UNCHANGED <<platform, sockVars, lsnVars, dmnVars, flowCache, nextFlowId, lst, rpVars, oastVars, moreVars>>

\* The remote history is re-fetched in another order.
HistoryReverse ==
    /\ Len(history) >= 2
    /\ history' = [k \in 1..Len(history) |-> history[Len(history) + 1 - k]]
    /\ UNCHANGED <<platform, sockVars, lsnVars, dmnVars, flowCache, nextFlowId, lst, rpVars, oastVars, moreVars>>

\* proxy.list begins: the listing pages through the remote history from offset 0.
ListBegin(l) ==
    /\ lst[l].pc = "idle"
    /\ lst' = [lst EXCEPT ![l] = [pc |-> "run", i |-> 0, rid |-> 0]]
    /\ UNCHANGED <<platform, sockVars, lsnVars, dmnVars, history, flowCache, nextFlowId, rpVars, oastVars, moreVars>>

\* proxy.list, per returned entry: fetch it, hash it and allocate its identifier.
ListStep(l) ==
    /\ lst[l].pc = "run"
    /\ lst[l].i < Len(history)
    /\ nextFlowId <= MaxFlowIds
    /\ LET page == GetProxyHistory(history, 1, lst[l].i)
           r    == FlowRegister(flowCache, nextFlowId, ContentHash(page[1]), lst[l].i)
       IN /\ flowCache' = r.cache
          /\ nextFlowId' = r.next
          /\ lst' = [lst EXCEPT ![l].i = @ + 1, ![l].rid = r.id]
    /\ UNCHANGED <<platform, sockVars, lsnVars, dmnVars, history, rpVars, oastVars, moreVars>>

\* proxy.list ends when the adapter has no further entry: the response is returned.
ListEnd(l) ==
    /\ lst[l].pc = "run"
    /\ lst[l].i >= Len(history)
    /\ lst' = [lst EXCEPT ![l] = IdleLister]
    /\ UNCHANGED <<platform, sockVars, lsnVars, dmnVars, history, flowCache, nextFlowId, rpVars, oastVars, moreVars>>

\* A client resolves a flow identifier (flowStore.Lookup): a read of the cache.
ClientLookup(l, id) ==
    /\ lst[l].pc = "idle"
    /\ LET r == FlowLookup(flowCache, id)
       IN lst' = [lst EXCEPT ![l] = [pc |-> "idle", i |-> 0, rid |-> IF r.ok THEN id ELSE 0]]
    /\ UNCHANGED <<platform, sockVars, lsnVars, dmnVars, history, flowCache, nextFlowId, rpVars, oastVars, moreVars>>

-----------------------------------------------------------------------------
(***************************************************************************)
(* Request rewriting                                                       *)
(***************************************************************************)
Range(seq) == {seq[k] : k \in 1..Len(seq)}

Param(n, v) == [name |-> n, value |-> v]

UpsertQuery(q, p) ==
    IF \E k \in 1..Len(q) : q[k].name = p.name
    THEN [k \in 1..Len(q) |-> IF q[k].name = p.name THEN p ELSE q[k]]
    ELSE Append(q, p)

RECURSIVE UpsertAll(_, _)
UpsertAll(q, ps) == IF ps = <<>> THEN q ELSE UpsertAll(UpsertQuery(q, Head(ps)), Tail(ps))

\* modifyRequestLine: replace the path, replace the query, drop the parameters
\* named by remove_query, upsert those of set_query; method and version stay.
ModifyRequestLineSetFirst(req, opts) ==
    LET p  == IF opts.path # "" THEN opts.path ELSE req.path
        q0 == IF opts.query # <<>> THEN opts.query ELSE req.query
        q1 == UpsertAll(q0, opts.setQuery)
    IN [req EXCEPT !.path = p,
                   !.query = SelectSeq(q1, LAMBDA x : x.name \notin Range(opts.removeQuery))]

ModifyRequestLine(req, opts) ==
    LET p  == IF opts.path # "" THEN opts.path ELSE req.path
        q0 == IF opts.query # <<>> THEN opts.query ELSE req.query
        q1 == SelectSeq(q0, LAMBDA x : x.name \notin Range(opts.removeQuery))
    IN [req EXCEPT !.path = p, !.query = UpsertAll(q1, opts.setQuery)]

AddHeader(hs, h) ==
    IF HasHeader(hs, h.name)
    THEN [k \in 1..Len(hs) |-> IF FoldName(hs[k].name) = FoldName(h.name) THEN h ELSE hs[k]]
    ELSE Append(hs, h)

RECURSIVE AddHeaders(_, _)
AddHeaders(hs, adds) == IF adds = <<>> THEN hs ELSE AddHeaders(AddHeader(hs, Head(adds)), Tail(adds))

\* applyHeaderModifications: removals first (case-insensitive on the name), then
\* additions, each replacing an existing header of the same name.
ApplyHeaderModificationsCaseSensitive(hs, sendReq) ==
    AddHeaders(SelectSeq(hs, LAMBDA h : \A k \in 1..Len(sendReq.removeHeaders) :
                                            h.name # sendReq.removeHeaders[k]),
               sendReq.addHeaders)

ApplyHeaderModifications(hs, sendReq) ==
    AddHeaders(SelectSeq(hs, LAMBDA h : \A k \in 1..Len(sendReq.removeHeaders) :
                                            FoldName(h.name) # FoldName(sendReq.removeHeaders[k])),
               sendReq.addHeaders)

SetJSONMember(o, e) == [k \in (DOMAIN o) \cup {e.path} |-> IF k = e.path THEN e.value ELSE o[k]]

RECURSIVE SetJSONAll(_, _)
SetJSONAll(o, es) == IF es = <<>> THEN o ELSE SetJSONAll(SetJSONMember(o, Head(es)), Tail(es))

\* modifyJSONBody: parse, apply remove_json, then set_json, and serialize.
ModifyJSONBodySetFirst(body, setJSON, removeJSON) ==
    LET p == ParseJSON(body) IN
    IF ~p.ok THEN [ok |-> FALSE, body |-> <<>>]
    ELSE LET set == SetJSONAll(p.obj, setJSON)
         IN [ok |-> TRUE,
             body |-> SerializeJSON([k \in (DOMAIN set) \ Range(removeJSON) |-> set[k]])]

ModifyJSONBody(body, setJSON, removeJSON) ==
    LET p == ParseJSON(body) IN
    IF ~p.ok THEN [ok |-> FALSE, body |-> <<>>]
    ELSE LET kept == [k \in (DOMAIN p.obj) \ Range(removeJSON) |-> p.obj[k]]
         IN [ok |-> TRUE, body |-> SerializeJSON(SetJSONAll(kept, setJSON))]

\* updateContentLength: an existing Content-Length header gets the new value, a
\* request without one has it appended.
UpdateContentLength(hs, n) ==
    IF HasHeader(hs, "Content-Length")
    THEN [k \in 1..Len(hs) |-> IF FoldName(hs[k].name) = "content-length"
                                THEN Header(hs[k].name, Itoa(n)) ELSE hs[k]]
    ELSE Append(hs, Header("Content-Length", Itoa(n)))

\* headers = updateContentLength(headers, len(reqBody))
ReconcileSkipped(hs, reqBody) == hs

Reconcile(hs, reqBody) == UpdateContentLength(hs, Len(reqBody))

HTTP2Versions == {"HTTP/2", "HTTP/2.0"}

TransformRequestForValidation(req) ==
    IF req.version \in HTTP2Versions THEN [req EXCEPT !.version = "HTTP/1.1"] ELSE req

Severities == {"error", "warn"}

Issue(k, sev) == [kind |-> k, severity |-> sev]

\* validateRequest: the issues of the request as it is validated. The label of a
\* missing Host header is not fixed by the validator's contract: hostSeverity.
ValidateRequest(raw, hostSeverity) ==
    LET r == TransformRequestForValidation(raw) IN
    (IF r.method = "" \/ r.path = "" \/ r.version \notin {"HTTP/1.0", "HTTP/1.1"}
     THEN {Issue("start_line", "error")} ELSE {})
    \cup (IF r.version = "HTTP/1.1" /\ ~HasHeader(r.headers, "Host")
          THEN {Issue("missing_host", hostSeverity)} ELSE {})
    \cup (IF HasHeader(r.headers, "Content-Length")
             /\ Atoi(HeaderValue(r.headers, "Content-Length")) # Len(r.body)
          THEN {Issue("content_length", "error")} ELSE {})

HasError(issues) == \E i \in issues : i.severity = "error"

\* if !force { issues := validateRequest(raw); any error => return }
BlockedIgnoringForce(force, issues) == HasError(issues)

Blocked(force, issues) == ~force /\ HasError(issues)

\* parseTarget: the host to send to (explicit override, else the Host header);
\* port and scheme are not modelled.
ParseTarget(raw, target) ==
    IF target # "" THEN target
    ELSE IF HasHeader(raw.headers, "Host") THEN HeaderValue(raw.headers, "Host")
    ELSE ""

Timeouts == {"", "30s", "bogus"}

ParseDurationOK(str) == str = "30s"

-----------------------------------------------------------------------------
(***************************************************************************)
(* replay_send                                                             *)
(***************************************************************************)
MaxReplays == 1   \* entries the request store holds

ReplayIds == 1..MaxReplays

NoEdits == [path |-> "", query |-> <<>>, setQuery |-> <<>>, removeQuery |-> <<>>,
            addHeaders |-> <<>>, removeHeaders |-> <<>>, target |-> "",
            body |-> <<>>, setJSON |-> <<>>, removeJSON |-> <<>>]

\* The edits a caller can ask for: every combination of body override, set_json,
\* remove_json and an added Content-Length header, and single edits of the
\* other kinds.
EditPool ==
    { [NoEdits EXCEPT !.body = b, !.setJSON = sj, !.removeJSON = rj, !.addHeaders = ah] :
        b  \in {<<>>, SerializeJSON([k \in {"a"} |-> "3"]), <<"x">>},
        sj \in {<<>>, <<[path |-> "b", value |-> "3"]>>},
        rj \in {<<>>, <<"a">>},
        ah \in {<<>>, <<Header("content-length", "99")>>} }
    \cup { [NoEdits EXCEPT !.removeHeaders = <<"host">>],
           [NoEdits EXCEPT !.path = "/v2", !.setQuery = <<Param("id", "2")>>],
           [NoEdits EXCEPT !.target = "t.test"] }

\* What the adapter's send delivers: response headers (bytes), response body
\* (bytes 0..255) and the elapsed time in milliseconds.
Responses ==
    { [headers |-> "HTTP/1.1 200 OK", body |-> <<111, 107>>, duration |-> 5],
      [headers |-> "HTTP/1.1 404 Not Found", body |-> <<>>, duration |-> 0],
      [headers |-> "HTTP/2 200", body |-> <<0, 255, 16, 128>>, duration |-> 1500] }

\* The response the adapter gives where the response does not matter.
OneResponse == {[headers |-> "HTTP/1.1 200 OK", body |-> <<111, 107>>, duration |-> 5]}

NoResult == [headers |-> "", body |-> <<>>, duration |-> 0]

\* time.Duration.String() on whole milliseconds.
FracString(m) ==
    IF m % 100 = 0 THEN Itoa(m \div 100)
    ELSE IF m % 10 = 0 THEN Itoa(m \div 100) \o Itoa((m \div 10) % 10)
    ELSE Itoa(m \div 100) \o Itoa((m \div 10) % 10) \o Itoa(m % 10)

DurationString(ms) ==
    IF ms = 0 THEN "0s"
    ELSE IF ms < 1000 THEN Itoa(ms) \o "ms"
    ELSE IF ms % 1000 = 0 THEN Itoa(ms \div 1000) \o "s"
    ELSE Itoa(ms \div 1000) \o "." \o FracString(ms % 1000) \o "s"

\* base64.StdEncoding: the alphabet, three bytes to four characters, = padding.
Base64Alphabet ==
    << "A", "B", "C", "D", "E", "F", "G", "H", "I", "J", "K", "L", "M", "N", "O", "P",
       "Q", "R", "S", "T", "U", "V", "W", "X", "Y", "Z", "a", "b", "c", "d", "e", "f",
       "g", "h", "i", "j", "k", "l", "m", "n", "o", "p", "q", "r", "s", "t", "u", "v",
       "w", "x", "y", "z", "0", "1", "2", "3", "4", "5", "6", "7", "8", "9", "+", "/" >>

B64(n) == Base64Alphabet[n + 1]

RECURSIVE Base64Encode(_)
Base64Encode(b) ==
    IF Len(b) = 0 THEN <<>>
    ELSE IF Len(b) = 1
         THEN <<B64(b[1] \div 4), B64((b[1] % 4) * 16), "=", "=">>
    ELSE IF Len(b) = 2
         THEN <<B64(b[1] \div 4), B64((b[1] % 4) * 16 + b[2] \div 16),
                B64((b[2] % 16) * 4), "=">>
    ELSE <<B64(b[1] \div 4), B64((b[1] % 4) * 16 + b[2] \div 16),
           B64((b[2] % 16) * 4 + b[3] \div 64), B64(b[3] % 64)>>
             \o Base64Encode(SubSeq(b, 4, Len(b)))

B64Index(c) == (CHOOSE k \in 1..Len(Base64Alphabet) : Base64Alphabet[k] = c) - 1

\* base64.StdEncoding.DecodeString on a well-formed encoding.
RECURSIVE Base64Decode(_)
Base64Decode(e) ==
    IF Len(e) = 0 THEN <<>>
    ELSE LET a == B64Index(e[1])
             b == B64Index(e[2])
         IN IF e[3] = "=" THEN <<a * 4 + b \div 16>>
            ELSE LET c == B64Index(e[3]) IN
                 IF e[4] = "=" THEN <<a * 4 + b \div 16, (b % 16) * 16 + c \div 4>>
                 ELSE <<a * 4 + b \div 16, (b % 16) * 16 + c \div 4,
                        (c % 4) * 64 + B64Index(e[4])>>
                          \o Base64Decode(SubSeq(e, 5, Len(e)))

NoSend == [stage |-> "none", flowId |-> 0, hash |-> 0, base |-> NoRequest,
           raw |-> NoRequest, force |-> FALSE, issues |-> {}, sendCalled |-> FALSE,
           sent |-> [rawRequest |-> NoRequest, target |-> "", timeout |-> ""],
           replayId |-> 0, edits |-> NoEdits, result |-> NoResult]

NoGet == [kind |-> "none", replayId |-> 0, duration |-> "", respHeaders |-> "",
          respBody |-> <<>>, respSize |-> 0]

\* requestStore.Store(id, entry) and requestStore.Get(id).
StoreEntry(store, id, entry) ==
    [k \in (DOMAIN store) \cup {id} |-> IF k = id THEN entry ELSE store[k]]

StoreGet(store, id) ==
    IF id \in DOMAIN store THEN [ok |-> TRUE, entry |-> store[id]]
    ELSE [ok |-> FALSE, entry |-> NoResult]

\* ids.Generate: an identifier no stored entry has.
GenerateReplayId(store) == CHOOSE id \in ReplayIds \ DOMAIN store :
                               \A other \in ReplayIds \ DOMAIN store : id <= other

\* handleReplayGet: the whole handler, as a function of the store. Identifier 0
\* stands for an empty replay_id.
HandleReplayGetRawBody(store, id) ==
    [NoGet EXCEPT !.kind = "ok", !.replayId = id,
                  !.respBody = StoreGet(store, id).entry.body]

HandleReplayGet(store, id) ==
    IF id = 0 THEN [NoGet EXCEPT !.kind = "replay_id_required"]
    ELSE LET got == StoreGet(store, id) IN
         IF ~got.ok THEN [NoGet EXCEPT !.kind = "not_found", !.replayId = id]
         ELSE [kind |-> "ok", replayId |-> id,
               duration |-> DurationString(got.entry.duration),
               respHeaders |-> got.entry.headers,
               respBody |-> Base64Encode(got.entry.body),
               respSize |-> Len(got.entry.body)]


RpInit ==
    /\ replayStore = <<>>
    /\ lastSend = NoSend
    /\ lastGet = NoGet

RpIdle == RpInit

\* The handler returns at the given stage without storing anything.
ReturnAndStore(call, stage) ==
    /\ lastSend' = [call EXCEPT !.stage = stage]
    /\ replayStore' = StoreEntry(replayStore, GenerateReplayId(replayStore), call.result)

Return(call, stage) ==
    /\ lastSend' = [call EXCEPT !.stage = stage]
    /\ replayStore' = replayStore

\* handleReplaySend, the whole handler. flowId 0 stands for an empty flow_id.
\* results are the responses the adapter may give to the dispatched request.
ReplaySend(flowId, edits, force, results) ==
    /\ lastSend.stage = "none"
    /\ Cardinality(DOMAIN replayStore) < MaxReplays
    /\ UNCHANGED <<platform, sockVars, lsnVars, dmnVars, flowVars, lastGet, oastVars, moreVars>>
    /\ LET call  == [NoSend EXCEPT !.flowId = flowId, !.force = force, !.edits = edits]
           found == FlowLookup(flowCache, flowId)
       IN
       IF flowId = 0 THEN Return(call, "flow_id_required")
       ELSE IF ~found.ok THEN Return(call, "not_found")
       ELSE \E fetchErr \in BOOLEAN :
         LET proxyEntries == GetProxyHistory(history, 1, found.entry.offset)
             c1 == [call EXCEPT !.hash = found.entry.hash]
         IN
         IF fetchErr THEN Return(c1, "fetch_error")
         ELSE IF Len(proxyEntries) = 0 THEN Return(c1, "fetch_empty")
         ELSE
           LET base     == proxyEntries[1]
               line     == ModifyRequestLine(base, edits)
               headers  == ApplyHeaderModifications(line.headers, edits)
               body0    == IF edits.body # <<>> THEN edits.body ELSE line.body
               jsonEdit == Len(edits.setJSON) > 0 \/ Len(edits.removeJSON) > 0
               modified == ModifyJSONBody(body0, edits.setJSON, edits.removeJSON)
               c2       == [c1 EXCEPT !.base = base]
           IN
           IF jsonEdit /\ ~modified.ok THEN Return(c2, "json_error")
           ELSE
             LET reqBody == IF jsonEdit THEN modified.body ELSE body0
                 raw     == [line EXCEPT !.headers = Reconcile(headers, reqBody),
                                         !.body = reqBody]
             IN
             \E hostSeverity \in Severities :
               LET issues == ValidateRequest(raw, hostSeverity)
                   c3     == [c2 EXCEPT !.raw = raw, !.issues = issues]
               IN
               IF Blocked(force, issues) THEN Return(c3, "validation_failed")
               ELSE \E timeout \in Timeouts :
                 IF timeout # "" /\ ~ParseDurationOK(timeout)
                 THEN Return(c3, "invalid_timeout")
                 ELSE \E sendErr \in BOOLEAN, result \in results :
                   LET replayID == GenerateReplayId(replayStore)
                       c4 == [c3 EXCEPT !.sendCalled = TRUE,
                                        !.sent = [rawRequest |-> raw,
                                                  target |-> ParseTarget(raw, edits.target),
                                                  timeout |-> timeout]]
                   IN
                   IF sendErr THEN Return(c4, "send_failed")
                   ELSE /\ lastSend' = [c4 EXCEPT !.stage = "ok", !.replayId = replayID,
                                                  !.result = result]
                        /\ replayStore' = StoreEntry(replayStore, replayID, result)

\* The result of the call has been delivered to the caller.
ReplayReturn ==
    /\ lastSend.stage # "none"
    /\ lastSend' = NoSend
    /\ UNCHANGED <<platform, sockVars, lsnVars, dmnVars, flowVars, replayStore, lastGet, oastVars, moreVars>>

\* The request store's sweeper removes the oldest entry when it has expired.
StoreSweep ==
    /\ \E id \in DOMAIN replayStore :
          replayStore' = [k \in (DOMAIN replayStore) \ {id} |-> replayStore[k]]
    /\ UNCHANGED <<platform, sockVars, lsnVars, dmnVars, flowVars, lastSend, lastGet, oastVars, moreVars>>

\* handleReplayGet, then the delivery of its result to the caller.
ReplayGet(id) ==
    /\ lastGet.kind = "none"
    /\ lastGet' = HandleReplayGet(replayStore, id)
    /\ UNCHANGED <<platform, sockVars, lsnVars, dmnVars, flowVars, replayStore, lastSend, oastVars, moreVars>>

ReplayGetReturn ==
    /\ lastGet.kind # "none"
    /\ lastGet' = NoGet
    /\ UNCHANGED <<platform, sockVars, lsnVars, dmnVars, flowVars, replayStore, lastSend, oastVars, moreVars>>

RECURSIVE RegisterAll(_, _, _, _)
RegisterAll(cache, next, hist, k) ==
    IF k > Len(hist) THEN [cache |-> cache, next |-> next]
    ELSE LET r == FlowRegister(cache, next, ContentHash(hist[k]), k - 1)
         IN RegisterAll(r.cache, r.next, hist, k + 1)

\* A whole proxy.list call with no other call in between.
ProxyList ==
    /\ \A l \in Listers : lst[l].pc = "idle"
    /\ LET r == RegisterAll(flowCache, nextFlowId, history, 1)
       IN /\ r.next <= MaxFlowIds + 1
          /\ flowCache' = r.cache
          /\ nextFlowId' = r.next
    /\ UNCHANGED <<platform, sockVars, lsnVars, dmnVars, history, lst, rpVars, oastVars, moreVars>>

-----------------------------------------------------------------------------
(***************************************************************************)
(* OAST session registry and its handlers                                  *)
(***************************************************************************)
MaxSessions == 2   \* sessions ever created
RingCap     == 2   \* events a session's ring holds
MaxEvents   == 3   \* events that arrive for one session

PollWaitCap == 120 \* seconds

SessionIds == 1..MaxSessions
Pollers == {1, 2}   \* two clients polling concurrently
Transports == {"http", "mcp"}
Labels == {"", "a"}
AdapterOutcomes == {"ok", "timeout", "fault"}

IsTimeoutError(err) == err = "timeout"

\* An observed interaction: id, arrival number, arrival time and type.
Event(n) == [id |-> Itoa(n), seq |-> n, time |-> n,
             type |-> IF n % 2 = 1 THEN "dns" ELSE "http"]

NoSession == [live |-> FALSE, label |-> "", createdAt |-> 0, ring |-> <<>>,
              arrived |-> 0, cursor |-> 0, dropped |-> 0]

Live(sess, sid) == sid \in SessionIds /\ sess[sid].live

LabelBound(sess, label) == \E sid \in SessionIds : sess[sid].live /\ sess[sid].label = label

\* Ring insertion: a full ring overwrites its oldest event, and the dropped
\* count advances when that event had not been read.
RingInsertNeverCounts(se, e) ==
    [se EXCEPT !.ring = IF Len(se.ring) = RingCap THEN Append(Tail(se.ring), e)
                        ELSE Append(se.ring, e),
               !.arrived = e.seq]

RingInsert(se, e) ==
    IF Len(se.ring) = RingCap
    THEN [se EXCEPT !.ring = Append(Tail(se.ring), e), !.arrived = e.seq,
                    !.dropped = IF se.ring[1].seq > se.cursor THEN @ + 1 ELSE @]
    ELSE [se EXCEPT !.ring = Append(se.ring, e), !.arrived = e.seq]

InRing(se, id) == \E k \in 1..Len(se.ring) : se.ring[k].id = id

Truncate(events, limit) ==
    IF limit > 0 /\ Len(events) > limit THEN SubSeq(events, 1, limit) ELSE events

\* The events a poll selects: since "last" those newer than the cursor, since
\* "" all buffered ones, since <event-id> those after that event. For an id
\* the ring does not hold, allBuffered says which of the two possible answers
\* (everything, nothing) is given.
SelectAllAlways(se, since, allBuffered) == se.ring

SelectEvents(se, since, allBuffered) ==
    IF since = "last" THEN SelectSeq(se.ring, LAMBDA e : e.seq > se.cursor)
    ELSE IF since = "" THEN se.ring
    ELSE IF InRing(se, since)
         THEN LET at == CHOOSE k \in 1..Len(se.ring) : se.ring[k].id = since
              IN SubSeq(se.ring, at + 1, Len(se.ring))
         ELSE IF allBuffered THEN se.ring ELSE <<>>

\* The session after a poll: only since "last" advances the cursor, to the
\* newest buffered event.
AdvanceAlways(se, since) ==
    IF se.ring # <<>> THEN [se EXCEPT !.cursor = se.arrived] ELSE se

AdvanceCursor(se, since) ==
    IF since = "last" /\ se.ring # <<>> THEN [se EXCEPT !.cursor = se.arrived] ELSE se

\* time.Time.UTC().Format(time.RFC3339) on the model's clock.
FormatRFC3339(t) == "1970-01-01T00:00:0" \o Itoa(t) \o "Z"

\* Convert internal events to the API response.
ConvertEventsReversed(events) ==
    [i \in 1..Len(events) |->
        [event_id |-> events[Len(events) + 1 - i].id,
         time |-> FormatRFC3339(events[Len(events) + 1 - i].time),
         type |-> events[Len(events) + 1 - i].type]]

ConvertEvents(events) ==
    [i \in 1..Len(events) |->
        [event_id |-> events[i].id, time |-> FormatRFC3339(events[i].time),
         type |-> events[i].type]]

\* time.ParseDuration on the wait strings callers send (seconds; -1: error).
WaitArgs == {"", "30s", "300s", "bogus"}

ParseDuration(str) ==
    CASE str = "30s" -> [ok |-> TRUE, secs |-> 30]
      [] str = "300s" -> [ok |-> TRUE, secs |-> 300]
      [] str = "2m0s" -> [ok |-> TRUE, secs |-> 120]
      [] str = "5m0s" -> [ok |-> TRUE, secs |-> 300]
      [] OTHER -> [ok |-> FALSE, secs |-> 0]

\* Cap at 120 seconds.
CapWaitUncapped(secs) == secs

CapWait(secs) == IF secs > PollWaitCap THEN PollWaitCap ELSE secs

\* The error a handler writes for a failed adapter call. The socket transport
\* answers with an envelope code; the tool gateway with an error result that
\* carries a message and no code.
ToolError == "tool_error"

\* handleOastCreate (both transports).
CreateErrorCodeNoSentinel(transport, err) ==
    IF transport = "mcp" THEN ToolError
    ELSE IF IsTimeoutError(err) THEN "TIMEOUT"
    ELSE "BACKEND_ERROR"

CreateErrorCode(transport, err) ==
    IF transport = "mcp" THEN ToolError
    ELSE IF IsTimeoutError(err) THEN "TIMEOUT"
    ELSE IF err = "label_exists" THEN "INVALID_REQUEST"
    ELSE "BACKEND_ERROR"

\* handleOastPoll, handleOastGet, handleOastDelete (both transports).
LookupErrorCodeNoSentinel(transport, err) ==
    IF transport = "mcp" THEN ToolError ELSE "BACKEND_ERROR"

LookupErrorCode(transport, err) ==
    IF transport = "mcp" THEN ToolError
    ELSE IF err = "not_found" THEN "NOT_FOUND"
    ELSE "BACKEND_ERROR"

\* handleOastList (both transports).
ListErrorCode(transport, err) ==
    IF transport = "mcp" THEN ToolError
    ELSE IF IsTimeoutError(err) THEN "TIMEOUT"
    ELSE "BACKEND_ERROR"

IdlePoller == [state |-> "idle", transport |-> "http", sid |-> 0, since |-> "",
               limit |-> 0, waitArg |-> "", wait |-> 0, backendCalled |-> FALSE, code |-> "",
               result |-> <<>>, events |-> <<>>, dropped |-> 0, cause |-> "", err |-> "",
               outcome |-> "", seen |-> NoSession, body |-> "json", envelopes |-> <<>>,
               calls |-> 0]

NoOast == [op |-> "none", transport |-> "http", code |-> "", label |-> "",
           sid |-> 0, eventId |-> "", limit |-> 0, sessions |-> <<>>, event |-> <<>>,
           err |-> "", details |-> "", body |-> "json", envelopes |-> <<>>, calls |-> 0]

\* The request body as the handler's json.Decoder finds it: a JSON value, no
\* bytes at all (io.EOF), or bytes the decoder fails on.
Bodies == {"json", "empty", "garbage"}

\* if err := json.NewDecoder(r.Body).Decode(&req); err != nil ... : create and
\* list let io.EOF pass, poll, get and delete do not.
DecodeFailsNever(op, body) == FALSE

DecodeFails(op, body) ==
    \/ body = "garbage"
    \/ body = "empty" /\ op \in {"poll", "get", "delete"}

\* writeJSON and writeError: one envelope with this code goes to the caller.
WriteEnvelope(call, code) == [call EXCEPT !.code = code, !.envelopes = Append(@, code)]

\* The handler calls a method of the OAST backend.
BackendCall(call) == [call EXCEPT !.calls = @ + 1]

OastInit ==
    /\ oastSess = [sid \in SessionIds |-> NoSession]
    /\ nextSessionId = 1
    /\ oastClock = 0
    /\ pollers = [p \in Pollers |-> IdlePoller]
    /\ lastOast = NoOast

OastIdle == OastInit

\* The registry after one session without label was created.
OastOneSession ==
    /\ oastSess = [sid \in SessionIds |->
                     IF sid = 1 THEN [NoSession EXCEPT !.live = TRUE, !.createdAt = 1]
                     ELSE NoSession]
    /\ nextSessionId = 2
    /\ oastClock = 1
    /\ pollers = [p \in Pollers |-> IdlePoller]
    /\ lastOast = NoOast

OastUnchangedOthers == UNCHANGED <<platform, sockVars, lsnVars, dmnVars, flowVars, rpVars, moreVars>>

\* No handler's answer is on its way to a caller.
Quiet == lastOast.op = "none" /\ \A p \in Pollers : pollers[p].state # "done"

\* An interaction is observed for a live session.
EventArrive(sid) ==
    /\ Live(oastSess, sid)
    /\ oastSess[sid].arrived < MaxEvents
    /\ oastSess' = [oastSess EXCEPT ![sid] = RingInsert(@, Event(@.arrived + 1))]
    /\ UNCHANGED <<nextSessionId, oastClock, pollers, lastOast>>
    /\ OastUnchangedOthers

\* The handler answers poller p with an error and leaves the registry alone.
PollFail(p, call, err, code) ==
    /\ pollers' = [pollers EXCEPT ![p] = [WriteEnvelope(call, code) EXCEPT !.state = "done",
                                                                          !.err = err]]
    /\ oastSess' = oastSess

\* PollSession returns its batch: truncated to limit, converted by the handler,
\* with the session's dropped count; the cursor moves for since "last".
PollDeliver(p, call, cause, allBuffered) ==
    LET se     == oastSess[call.sid]
        result == Truncate(SelectEvents(se, call.since, allBuffered), call.limit)
    IN /\ pollers' = [pollers EXCEPT ![p] =
                        [WriteEnvelope(call, "OK") EXCEPT
                            !.state = "done", !.cause = cause, !.result = result,
                            !.events = ConvertEvents(result), !.dropped = se.dropped]]
       /\ oastSess' = [oastSess EXCEPT ![call.sid] = AdvanceCursor(se, call.since)]

\* handleOastPoll up to the point where PollSession returns or blocks, for a
\* request that came in over transport and is recorded in call. Session 0
\* stands for an empty oast_id.
\* The wait handed to PollSession: each transport's handler parses the wait
\* argument and caps it.
PollWaitSocketOnly(transport, secs) == IF transport = "mcp" THEN secs ELSE CapWait(secs)

PollWait(transport, secs) == CapWait(secs)

HandleOastPoll(p, call, transport, sid, since, waitStr, limit, outcome, allBuffered) ==
    LET parsed == ParseDuration(waitStr) IN
    IF sid = 0
    THEN PollFail(p, call, "", IF transport = "mcp" THEN ToolError ELSE "INVALID_REQUEST")
    ELSE IF waitStr # "" /\ ~parsed.ok
    THEN PollFail(p, call, "", IF transport = "mcp" THEN ToolError ELSE "INVALID_REQUEST")
    ELSE
      LET wait == IF waitStr = "" THEN 0 ELSE PollWait(transport, parsed.secs)
          c1   == [BackendCall(call) EXCEPT !.wait = wait, !.backendCalled = TRUE]
      IN
      IF outcome # "ok" THEN PollFail(p, c1, outcome, LookupErrorCode(transport, outcome))
      ELSE IF ~Live(oastSess, sid)
      THEN PollFail(p, c1, "not_found", LookupErrorCode(transport, "not_found"))
      ELSE IF SelectEvents(oastSess[sid], since, allBuffered) = <<>> /\ wait > 0
      THEN /\ pollers' = [pollers EXCEPT ![p] = [c1 EXCEPT !.state = "blocked"]]
           /\ oastSess' = oastSess
      ELSE PollDeliver(p, c1, "immediate", allBuffered)

\* A poll request arrives on the local socket ("http") or the gateway ("mcp")
\* while no other answer is on its way.
OastPoll(p, transport, sid, since, waitStr, limit, outcome, allBuffered) ==
    /\ pollers[p].state = "idle"
    /\ Quiet
    /\ UNCHANGED <<nextSessionId, oastClock, lastOast>>
    /\ OastUnchangedOthers
    /\ HandleOastPoll(p, [IdlePoller EXCEPT !.transport = transport, !.sid = sid,
                                            !.since = since, !.limit = limit,
                                            !.waitArg = waitStr],
                      transport, sid, since, waitStr, limit, outcome, allBuffered)

\* A poll request that may arrive while another one is being answered. The
\* record keeps the adapter's outcome and the session as the call found it.
OastPollRequest(p, transport, sid, since, waitStr, limit, outcome, allBuffered) ==
    /\ pollers[p].state = "idle"
    /\ UNCHANGED <<nextSessionId, oastClock, lastOast>>
    /\ OastUnchangedOthers
    /\ HandleOastPoll(p, [IdlePoller EXCEPT !.transport = transport, !.sid = sid,
                                            !.since = since, !.limit = limit,
                                            !.waitArg = waitStr, !.outcome = outcome,
                                            !.seen = IF sid \in SessionIds THEN oastSess[sid]
                                                     ELSE NoSession],
                      transport, sid, since, waitStr, limit, outcome, allBuffered)

\* time.Duration.String() of the waits the command line can hold (seconds).
CliWaitString(secs) ==
    CASE secs = 30 -> "30s"
      [] secs = 120 -> "2m0s"
      [] secs = 300 -> "5m0s"
      [] OTHER -> Itoa(secs) \o "s"

\* parsePoll: `sectool oast poll <oast_id> --since s --wait w`. The flag set
\* parses --wait (default 120 s); a value that is no duration, or a missing
\* oast_id, ends the command before anything is sent to the daemon. Otherwise
\* the request goes to the daemon's handler with the parsed wait.
CliPoll(p, sid, since, waitFlag, outcome) ==
    /\ pollers[p].state = "idle"
    /\ Quiet
    /\ UNCHANGED <<nextSessionId, oastClock, lastOast>>
    /\ OastUnchangedOthers
    /\ LET call == [IdlePoller EXCEPT !.transport = "cli", !.sid = sid, !.since = since,
                                      !.waitArg = waitFlag]
           flag == ParseDuration(waitFlag)
       IN
       IF waitFlag # "" /\ ~flag.ok THEN PollFail(p, call, "", "USAGE")
       ELSE IF sid = 0 THEN PollFail(p, call, "", "USAGE")
       ELSE HandleOastPoll(p, call, "http", sid, since,
                           CliWaitString(IF waitFlag = "" THEN PollWaitCap ELSE flag.secs),
                           0, outcome, TRUE)

\* A blocked long-poll is woken by an event it can deliver.
PollWake(p) ==
    /\ pollers[p].state = "blocked"
    /\ Live(oastSess, pollers[p].sid)
    /\ \E allBuffered \in BOOLEAN :
          /\ SelectEvents(oastSess[pollers[p].sid], pollers[p].since, allBuffered) # <<>>
          /\ PollDeliver(p, pollers[p], "event", allBuffered)
    /\ UNCHANGED <<nextSessionId, oastClock, lastOast>>
    /\ OastUnchangedOthers

\* The long-poll's wait has elapsed.
TimerDisarmed(p) == FALSE

TimerArmed(p) == pollers[p].wait > 0

PollTimeout(p) ==
    /\ pollers[p].state = "blocked"
    /\ TimerArmed(p)
    /\ Live(oastSess, pollers[p].sid)
    /\ \E allBuffered \in BOOLEAN : PollDeliver(p, pollers[p], "timeout", allBuffered)
    /\ UNCHANGED <<nextSessionId, oastClock, lastOast>>
    /\ OastUnchangedOthers

\* The request context of a blocked long-poll is cancelled.
PollCancel(p) ==
    /\ pollers[p].state = "blocked"
    /\ PollFail(p, [pollers[p] EXCEPT !.cause = "cancelled"], "cancelled",
                LookupErrorCode(pollers[p].transport, "cancelled"))
    /\ UNCHANGED <<nextSessionId, oastClock, lastOast>>
    /\ OastUnchangedOthers

\* The session of a blocked long-poll was deleted: the poll returns, with
\* ErrNotFound or with an empty batch.
PollGone(p) ==
    /\ pollers[p].state = "blocked"
    /\ ~Live(oastSess, pollers[p].sid)
    /\ \/ PollFail(p, [pollers[p] EXCEPT !.cause = "deleted"], "not_found",
                   LookupErrorCode(pollers[p].transport, "not_found"))
       \/ /\ pollers' = [pollers EXCEPT ![p] = [WriteEnvelope(@, "OK") EXCEPT
                                                  !.state = "done", !.cause = "deleted"]]
          /\ oastSess' = oastSess
    /\ UNCHANGED <<nextSessionId, oastClock, lastOast>>
    /\ OastUnchangedOthers

\* The answer has been delivered to the polling client.
PollReturn(p) ==
    /\ pollers[p].state = "done"
    /\ pollers' = [pollers EXCEPT ![p] = IdlePoller]
    /\ UNCHANGED <<oastSess, nextSessionId, oastClock, lastOast>>
    /\ OastUnchangedOthers

\* err.Error() of the errors the backend returns ("" where the handler
\* answers without a backend error).
ErrorText(err) ==
    CASE err = "timeout" -> "context deadline exceeded"
      [] err = "fault" -> "connection refused"
      [] err = "not_found" -> "not found"
      [] err = "label_exists" -> "label already exists"
      [] err = "decode" -> "unexpected EOF"
      [] OTHER -> ""

\* The details member of the error envelope: writeError's last argument. The
\* gateway's tool error has no such member.
ErrorDetailsDropped(transport, err) == ""

ErrorDetails(transport, err) == IF transport = "http" THEN ErrorText(err) ELSE ""

\* The handler answers a create/list/get/delete call with an error.
OastFailSilent(call, err, code) ==
    /\ lastOast' = [call EXCEPT !.err = err, !.code = code,
                                !.details = ErrorDetails(call.transport, err)]
    /\ UNCHANGED <<oastSess, nextSessionId, oastClock>>

OastFail(call, err, code) ==
    /\ lastOast' = [WriteEnvelope(call, code) EXCEPT
                       !.err = err, !.details = ErrorDetails(call.transport, err)]
    /\ UNCHANGED <<oastSess, nextSessionId, oastClock>>

\* handleOastCreate with the backend's CreateSession.
HandleOastCreate(req, transport, label, outcome) ==
    LET call == BackendCall(req) IN
    IF outcome # "ok" THEN OastFail(call, outcome, CreateErrorCode(transport, outcome))
    ELSE IF label # "" /\ LabelBound(oastSess, label)
    THEN OastFail(call, "label_exists", CreateErrorCode(transport, "label_exists"))
    ELSE \E t \in {oastClock, oastClock + 1} :
           /\ oastSess' = [oastSess EXCEPT ![nextSessionId] =
                              [NoSession EXCEPT !.live = TRUE, !.label = label,
                                                !.createdAt = t]]
           /\ nextSessionId' = nextSessionId + 1
           /\ oastClock' = t
           /\ lastOast' = [WriteEnvelope(call, "OK") EXCEPT !.sid = nextSessionId]

OastCreate(transport, label, outcome) ==
    /\ Quiet
    /\ nextSessionId <= MaxSessions \/ outcome # "ok" \/ (label # "" /\ LabelBound(oastSess, label))
    /\ UNCHANGED pollers
    /\ OastUnchangedOthers
    /\ HandleOastCreate([NoOast EXCEPT !.op = "create", !.transport = transport,
                                       !.label = label],
                        transport, label, outcome)

\* handleOastDelete with the backend's DeleteSession.
HandleOastDelete(req, transport, sid, outcome) ==
    LET call == BackendCall(req) IN
    IF sid = 0
    THEN OastFail(req, "", IF transport = "mcp" THEN ToolError ELSE "INVALID_REQUEST")
    ELSE IF outcome # "ok" THEN OastFail(call, outcome, LookupErrorCode(transport, outcome))
    ELSE IF ~Live(oastSess, sid)
    THEN OastFail(call, "not_found", LookupErrorCode(transport, "not_found"))
    ELSE /\ oastSess' = [oastSess EXCEPT ![sid] = [NoSession EXCEPT !.label = oastSess[sid].label]]
         /\ lastOast' = WriteEnvelope(call, "OK")
         /\ UNCHANGED <<nextSessionId, oastClock>>

OastDelete(transport, sid, outcome) ==
    /\ Quiet
    /\ UNCHANGED pollers
    /\ OastUnchangedOthers
    /\ HandleOastDelete([NoOast EXCEPT !.op = "delete", !.transport = transport, !.sid = sid],
                        transport, sid, outcome)

\* sort.Slice by CreatedAt descending: an order of the listed sessions in which
\* no session comes before a newer one (equal times in either order).
Orders(ids) == {o \in [1..Cardinality(ids) -> ids] :
                   \A i, j \in 1..Cardinality(ids) : i # j => o[i] # o[j]}

SortedNewestFirst(sess, ids) ==
    {o \in Orders(ids) :
        \A i, j \in 1..Len(o) : i < j => sess[o[i]].createdAt >= sess[o[j]].createdAt}

\* if limit > 0 && len(sessions) > limit { sessions = sessions[:limit] }
ListLimitKeepsOldest(sessions, limit) ==
    IF limit > 0 /\ Len(sessions) > limit
    THEN SubSeq(sessions, Len(sessions) - limit + 1, Len(sessions)) ELSE sessions

ListLimit(sessions, limit) ==
    IF limit > 0 /\ Len(sessions) > limit THEN SubSeq(sessions, 1, limit) ELSE sessions

ApiSession(sess, sid) == [oast_id |-> sid, label |-> sess[sid].label,
                          created_at |-> FormatRFC3339(sess[sid].createdAt)]

\* processOastList with its handlers.
HandleOastList(req, transport, limit, outcome) ==
    LET call == BackendCall(req) IN
    IF outcome # "ok" THEN OastFail(call, outcome, ListErrorCode(transport, outcome))
    ELSE \E sorted \in SortedNewestFirst(oastSess, {sid \in SessionIds : oastSess[sid].live}) :
           LET kept == ListLimit(sorted, limit) IN
           /\ lastOast' = [WriteEnvelope(call, "OK") EXCEPT
                              !.sessions = [i \in 1..Len(kept) |-> ApiSession(oastSess, kept[i])]]
           /\ UNCHANGED <<oastSess, nextSessionId, oastClock>>

OastList(transport, limit, outcome) ==
    /\ Quiet
    /\ UNCHANGED pollers
    /\ OastUnchangedOthers
    /\ HandleOastList([NoOast EXCEPT !.op = "list", !.transport = transport, !.limit = limit],
                      transport, limit, outcome)

\* handleOastGet with the backend's GetEvent. Event "" stands for an empty event_id.
HandleOastGet(req, transport, sid, eventId, outcome) ==
    LET call == BackendCall(req) IN
    IF sid = 0 \/ eventId = ""
    THEN OastFail(req, "", IF transport = "mcp" THEN ToolError ELSE "INVALID_REQUEST")
    ELSE IF outcome # "ok" THEN OastFail(call, outcome, LookupErrorCode(transport, outcome))
    ELSE IF ~Live(oastSess, sid) \/ ~InRing(oastSess[sid], eventId)
    THEN OastFail(call, "not_found", LookupErrorCode(transport, "not_found"))
    ELSE LET at == CHOOSE k \in 1..Len(oastSess[sid].ring) : oastSess[sid].ring[k].id = eventId
         IN /\ lastOast' = [WriteEnvelope(call, "OK") EXCEPT
                               !.event = ConvertEvents(<<oastSess[sid].ring[at]>>)]
            /\ UNCHANGED <<oastSess, nextSessionId, oastClock>>

OastGet(transport, sid, eventId, outcome) ==
    /\ Quiet
    /\ UNCHANGED pollers
    /\ OastUnchangedOthers
    /\ HandleOastGet([NoOast EXCEPT !.op = "get", !.transport = transport, !.sid = sid,
                                    !.eventId = eventId],
                     transport, sid, eventId, outcome)

\* The socket handlers, from the decoding of the request body on. A body
\* without bytes leaves every field of the request at its zero value.
ZeroFields(body, numbers, strings) ==
    body = "empty" => (\A k \in DOMAIN numbers : numbers[k] = 0)
                         /\ (\A k \in DOMAIN strings : strings[k] = "")

\* s.writeError(w, http.StatusBadRequest, ErrCodeInvalidRequest, "invalid request body", ...)
RejectBody(call) == OastFail(call, "decode", "INVALID_REQUEST")

SockCreate(body, label, outcome) ==
    /\ Quiet
    /\ ZeroFields(body, <<>>, <<label>>)
    /\ \/ nextSessionId <= MaxSessions \/ outcome # "ok" \/ DecodeFails("create", body)
       \/ (label # "" /\ LabelBound(oastSess, label))
    /\ UNCHANGED pollers
    /\ OastUnchangedOthers
    /\ LET call == [NoOast EXCEPT !.op = "create", !.body = body, !.label = label]
       IN IF DecodeFails("create", body) THEN RejectBody(call)
          ELSE HandleOastCreate(call, "http", label, outcome)

SockPoll(p, body, sid, since, waitStr, limit, outcome, allBuffered) ==
    /\ pollers[p].state = "idle"
    /\ Quiet
    /\ ZeroFields(body, <<sid, limit>>, <<since, waitStr>>)
    /\ UNCHANGED <<nextSessionId, oastClock, lastOast>>
    /\ OastUnchangedOthers
    /\ LET call == [IdlePoller EXCEPT !.body = body, !.sid = sid, !.since = since,
                                      !.limit = limit, !.waitArg = waitStr]
       IN IF DecodeFails("poll", body) THEN PollFail(p, call, "decode", "INVALID_REQUEST")
          ELSE HandleOastPoll(p, call, "http", sid, since, waitStr, limit, outcome, allBuffered)

SockGet(body, sid, eventId, outcome) ==
    /\ Quiet
    /\ ZeroFields(body, <<sid>>, <<eventId>>)
    /\ UNCHANGED pollers
    /\ OastUnchangedOthers
    /\ LET call == [NoOast EXCEPT !.op = "get", !.body = body, !.sid = sid, !.eventId = eventId]
       IN IF DecodeFails("get", body) THEN RejectBody(call)
          ELSE HandleOastGet(call, "http", sid, eventId, outcome)

SockList(body, limit, outcome) ==
    /\ Quiet
    /\ ZeroFields(body, <<limit>>, <<>>)
    /\ UNCHANGED pollers
    /\ OastUnchangedOthers
    /\ LET call == [NoOast EXCEPT !.op = "list", !.body = body, !.limit = limit]
       IN IF DecodeFails("list", body) THEN RejectBody(call)
          ELSE HandleOastList(call, "http", limit, outcome)

SockDelete(body, sid, outcome) ==
    /\ Quiet
    /\ ZeroFields(body, <<sid>>, <<>>)
    /\ UNCHANGED pollers
    /\ OastUnchangedOthers
    /\ LET call == [NoOast EXCEPT !.op = "delete", !.body = body, !.sid = sid]
       IN IF DecodeFails("delete", body) THEN RejectBody(call)
          ELSE HandleOastDelete(call, "http", sid, outcome)

\* The answer has been delivered to the caller.
OastReturn ==
    /\ lastOast.op # "none"
    /\ lastOast' = NoOast
    /\ UNCHANGED <<oastSess, nextSessionId, oastClock, pollers>>
    /\ OastUnchangedOthers

-----------------------------------------------------------------------------
(***************************************************************************)
(* Proxy rules: the gateway's proxy_rule_* handlers over the adapter's     *)
(* rule set.                                                               *)
(***************************************************************************)
NoRule == [op |-> "none", ruleId |-> 0, type |-> "", match |-> "", replace |-> "",
           label |-> "", ws |-> FALSE, limit |-> 0, adapterCalled |-> FALSE,
           err |-> "", isError |-> FALSE, text |-> "", listed |-> <<>>]

RuleInit ==
    /\ rules = <<>>
    /\ nextRuleId = 1
    /\ lastRule = NoRule

RuleIdle == RuleInit

MaxRules == 2   \* rules ever added

RuleTypes == {"request_header", "request_body", "response_header", "response_body"}

\* validateRuleType
ValidRuleType(type) == type \in RuleTypes

\* if match == "" && replace == "" { return errorResult(...) }
MatchOrReplaceAlways(match, replace) == TRUE

MatchOrReplaceGiven(match, replace) == ~(match = "" /\ replace = "")

RuleIds(rs) == {rs[k].id : k \in 1..Len(rs)}

RuleAt(rs, id) == rs[CHOOSE k \in 1..Len(rs) : rs[k].id = id]

\* A live rule of the websocket class, other than rule `except`, carries the label.
RuleLabelBound(rs, ws, label, except) ==
    \E k \in 1..Len(rs) : rs[k].ws = ws /\ rs[k].label = label /\ rs[k].id # except

\* ListRules(ctx, websocket): the rules of one class, in the adapter's order.
ListRules(rs, ws) == SelectSeq(rs, LAMBDA r : r.ws = ws)

\* if limit > 0 && len(rules) > limit { rules = rules[:limit] }
RuleLimitNoGuard(rs, limit) == IF Len(rs) > limit THEN SubSeq(rs, 1, limit) ELSE rs

RuleLimit(rs, limit) == IF limit > 0 /\ Len(rs) > limit THEN SubSeq(rs, 1, limit) ELSE rs

RuleUnchangedOthers ==
    UNCHANGED <<platform, sockVars, lsnVars, dmnVars, flowVars, rpVars, oastVars, cfgVars,
                drainVars, parseVars, rwVars>>

\* errorResult(text): the handler answers with a tool error; the rule set is
\* as the adapter left it.
RuleFail(call, err, text) ==
    /\ lastRule' = [call EXCEPT !.err = err, !.isError = TRUE, !.text = text]
    /\ UNCHANGED <<rules, nextRuleId>>

\* The checks handleProxyRuleAdd and handleProxyRuleUpdate make before the
\* adapter is called: "" when they pass, else the error text.
RuleInputError(type, match, replace) ==
    IF type = "" THEN "type is required"
    ELSE IF ~ValidRuleType(type) THEN "invalid rule type"
    ELSE IF ~MatchOrReplaceGiven(match, replace) THEN "match or replace is required"
    ELSE ""

\* handleProxyRuleAdd with the adapter's AddRule.
RuleAdd(type, match, replace, label, ws, outcome) ==
    /\ lastRule.op = "none"
    /\ nextRuleId <= MaxRules \/ outcome # "ok" \/ RuleInputError(type, match, replace) # ""
          \/ (label # "" /\ RuleLabelBound(rules, ws, label, 0))
    /\ RuleUnchangedOthers
    /\ LET call == [NoRule EXCEPT !.op = "add", !.type = type, !.match = match,
                                  !.replace = replace, !.label = label, !.ws = ws]
           c1   == [call EXCEPT !.adapterCalled = TRUE]
       IN
       IF RuleInputError(type, match, replace) # ""
       THEN RuleFail(call, "", RuleInputError(type, match, replace))
       ELSE IF outcome # "ok" THEN RuleFail(c1, outcome, "failed to add rule")
       ELSE IF label # "" /\ RuleLabelBound(rules, ws, label, 0)
       THEN RuleFail(c1, "label_exists", "label already exists")
       ELSE /\ rules' = Append(rules, [id |-> nextRuleId, label |-> label, type |-> type,
                                       match |-> match, replace |-> replace, ws |-> ws])
            /\ nextRuleId' = nextRuleId + 1
            /\ lastRule' = [c1 EXCEPT !.ruleId = nextRuleId]

\* handleProxyRuleUpdate with the adapter's UpdateRule. Rule 0 stands for an
\* empty rule_id.
RuleUpdate(ruleId, type, match, replace, label, outcome) ==
    /\ lastRule.op = "none"
    /\ RuleUnchangedOthers
    /\ LET call == [NoRule EXCEPT !.op = "update", !.ruleId = ruleId, !.type = type,
                                  !.match = match, !.replace = replace, !.label = label]
           c1   == [call EXCEPT !.adapterCalled = TRUE]
       IN
       IF ruleId = 0 THEN RuleFail(call, "", "rule_id is required")
       ELSE IF RuleInputError(type, match, replace) # ""
       THEN RuleFail(call, "", RuleInputError(type, match, replace))
       ELSE IF outcome # "ok" THEN RuleFail(c1, outcome, "failed to update rule")
       ELSE IF ruleId \notin RuleIds(rules) THEN RuleFail(c1, "not_found", "rule not found")
       ELSE IF label # "" /\ RuleLabelBound(rules, RuleAt(rules, ruleId).ws, label, ruleId)
       THEN RuleFail(c1, "label_exists", "label already exists")
       ELSE /\ rules' = [k \in 1..Len(rules) |->
                           IF rules[k].id = ruleId
                           THEN [rules[k] EXCEPT !.label = label, !.type = type,
                                                 !.match = match, !.replace = replace]
                           ELSE rules[k]]
            /\ lastRule' = [c1 EXCEPT !.ws = RuleAt(rules, ruleId).ws]
            /\ UNCHANGED nextRuleId

\* handleProxyRuleDelete with the adapter's DeleteRule.
RuleDelete(ruleId, outcome) ==
    /\ lastRule.op = "none"
    /\ RuleUnchangedOthers
    /\ LET call == [NoRule EXCEPT !.op = "delete", !.ruleId = ruleId]
           c1   == [call EXCEPT !.adapterCalled = TRUE]
       IN
       IF ruleId = 0 THEN RuleFail(call, "", "rule_id is required")
       ELSE IF outcome # "ok" THEN RuleFail(c1, outcome, "failed to delete rule")
       ELSE IF ruleId \notin RuleIds(rules) THEN RuleFail(c1, "not_found", "rule not found")
       ELSE /\ rules' = SelectSeq(rules, LAMBDA r : r.id # ruleId)
            /\ lastRule' = c1
            /\ UNCHANGED nextRuleId

\* handleProxyRuleList with the adapter's ListRules.
RuleList(ws, limit, outcome) ==
    /\ lastRule.op = "none"
    /\ RuleUnchangedOthers
    /\ LET c1 == [NoRule EXCEPT !.op = "list", !.ws = ws, !.limit = limit,
                                !.adapterCalled = TRUE]
       IN
       IF outcome # "ok" THEN RuleFail(c1, outcome, "failed to list rules")
       ELSE /\ lastRule' = [c1 EXCEPT !.listed = RuleLimit(ListRules(rules, ws), limit)]
            /\ UNCHANGED <<rules, nextRuleId>>

\* The answer has been delivered to the caller.
RuleReturn ==
    /\ lastRule.op # "none"
    /\ lastRule' = NoRule
    /\ UNCHANGED <<rules, nextRuleId>>
    /\ RuleUnchangedOthers

-----------------------------------------------------------------------------
(***************************************************************************)
(* config.json: Load and Save.                                             *)
(***************************************************************************)
\* Config, with the fields that differ between documents; version and
\* initialized_at are one member each.
DefaultBurpMCPURL == "http://127.0.0.1:9876/sse"

Configs == [last_init_mode : {"", "explore", "test-report"},
            burp_mcp_url : {DefaultBurpMCPURL},
            preserve_guides : BOOLEAN]

\* json.MarshalIndent(c, "", "  "): the document as the sequence of pieces a
\* reader may find written; the omitempty members are left out when empty.
MarshalIndent(c) ==
    <<"{", "\"version\": \"0.0.1\",", "\"initialized_at\": \"...\",">>
      \o (IF c.last_init_mode = "" THEN <<>>
          ELSE <<"\"last_init_mode\": \"" \o c.last_init_mode \o "\",">>)
      \o <<"\"burp_mcp_url\": \"" \o c.burp_mcp_url \o "\"">>
      \o (IF c.preserve_guides THEN <<",", "\"preserve_guides\": true">> ELSE <<>>)
      \o <<"}">>

\* json.Unmarshal(data, &cfg): the document's members, or an error for data
\* that is no complete JSON document.
Unmarshal(data) ==
    IF \E c \in Configs : MarshalIndent(c) = data
    THEN [ok |-> TRUE, cfg |-> CHOOSE c \in Configs : MarshalIndent(c) = data]
    ELSE [ok |-> FALSE, cfg |-> <<>>]

NoLoad == [kind |-> "none", data |-> <<>>, cfg |-> <<>>]

NoSave == [pc |-> "idle", data |-> <<>>, written |-> 0, prev |-> <<>>]

CfgInit ==
    /\ cfgFile \in {MarshalIndent(c) : c \in Configs}
    /\ savePc = NoSave
    /\ loaded = NoLoad

CfgIdle ==
    /\ cfgFile = <<>>
    /\ savePc = NoSave
    /\ loaded = NoLoad

CfgUnchangedOthers ==
    UNCHANGED <<platform, sockVars, lsnVars, dmnVars, flowVars, rpVars, oastVars, ruleVars,
                drainVars, parseVars, rwVars>>

\* run (init): the guide was written, so the mode is recorded and the config
\* saved. Save marshals the document first.
SaveBegin(c, mode) ==
    /\ savePc.pc = "idle"
    /\ savePc' = [pc |-> "open", data |-> MarshalIndent([c EXCEPT !.last_init_mode = mode]),
                  written |-> 0, prev |-> cfgFile]
    /\ UNCHANGED <<cfgFile, loaded>>
    /\ CfgUnchangedOthers

\* os.WriteFile, OpenFile(path, O_WRONLY|O_CREATE|O_TRUNC, 0600): the file at
\* the path itself is cut to length 0.
SaveOpen ==
    /\ savePc.pc = "open"
    /\ cfgFile' = <<>>
    /\ savePc' = [savePc EXCEPT !.pc = "write"]
    /\ UNCHANGED loaded
    /\ CfgUnchangedOthers

\* os.WriteFile, f.Write(data): the bytes reach the file in one or more writes.
SaveWrite(upto) ==
    /\ savePc.pc = "write"
    /\ upto > savePc.written /\ upto <= Len(savePc.data)
    /\ cfgFile' = SubSeq(savePc.data, 1, upto)
    /\ savePc' = [savePc EXCEPT !.written = upto,
                                !.pc = IF upto = Len(savePc.data) THEN "close" ELSE "write"]
    /\ UNCHANGED loaded
    /\ CfgUnchangedOthers

\* os.WriteFile, f.Close(): Save returns.
SaveClose ==
    /\ savePc.pc = "close"
    /\ savePc' = NoSave
    /\ UNCHANGED <<cfgFile, loaded>>
    /\ CfgUnchangedOthers

\* Load: os.ReadFile, json.Unmarshal, default for an empty burp_mcp_url.
Load ==
    /\ loaded = NoLoad
    /\ LET data == cfgFile
           un   == Unmarshal(data)
       IN loaded' = IF ~un.ok THEN [kind |-> "error", data |-> data, cfg |-> <<>>]
                    ELSE [kind |-> "ok", data |-> data,
                          cfg |-> IF un.cfg.burp_mcp_url = ""
                                  THEN [un.cfg EXCEPT !.burp_mcp_url = DefaultBurpMCPURL]
                                  ELSE un.cfg]
    /\ UNCHANGED <<cfgFile, savePc>>
    /\ CfgUnchangedOthers

\* The loaded configuration, or the error, has been handed to the caller.
LoadReturn ==
    /\ loaded # NoLoad
    /\ loaded' = NoLoad
    /\ UNCHANGED <<cfgFile, savePc>>
    /\ CfgUnchangedOthers

-----------------------------------------------------------------------------
(***************************************************************************)
(* Draining: in-flight handlers, adapters and the drain deadline.          *)
(***************************************************************************)
DrainInit ==
    /\ inflight = [d \in Daemons |-> 0]
    /\ adaptersOpen = [d \in Daemons |-> FALSE]
    /\ drainExpired = [d \in Daemons |-> FALSE]

-----------------------------------------------------------------------------
(***************************************************************************)
(* Response status parsing: readResponseStatusCode, parseResponseStatus.   *)
(***************************************************************************)
\* Response bytes are sequences of one-character strings. The inputs are put
\* together from a version, a separator, a status code and a rest.
StatusVersions == {<<"H", "T", "T", "P", "/", "1", ".", "0">>,
                  <<"H", "T", "T", "P", "/", "1", ".", "1">>,
                  <<"H", "T", "T", "P", "/", "2">>,
                  <<"H", "T", "T", "P", "/", "2", ".", "0">>}

InputVersions == StatusVersions \cup {<<"H", "T", "T", "P", "/", "3">>,
                                          <<"G", "E", "T">>,
                                          <<>>}

InputSeparators == {<<" ">>, <<>>}

InputCodes == {<<"2", "0", "0">>,
               <<"4", "0", "4">>,
               <<"1", "0", "0">>,
               <<"5", "9", "9">>,
               <<"0", "9", "9">>,
               <<"6", "0", "0">>,
               <<"9", "9">>,
               <<"2", "0">>,
               <<"A", "B", "C">>,
               <<"2", "a", "0">>,
               <<>>}

InputRests == {<<>>,
               <<" ", "O", "K", "\r", "\n">>,
               <<"\r", "\n", "\r", "\n">>,
               <<"\n", "X", ":", " ", "y", "\n", "\n">>}

StatusInputs ==
    [version : InputVersions, sep : InputSeparators, code : InputCodes, rest : InputRests]

Bytes(in) == in.version \o in.sep \o in.code \o in.rest

IndexByte(b, c) ==
    IF \E k \in 1..Len(b) : b[k] = c
    THEN CHOOSE k \in 1..Len(b) : b[k] = c /\ \A j \in 1..(k - 1) : b[j] # c
    ELSE 0

\* The first line, without its line ending (CRLF or LF).
FirstLine(b) ==
    LET nl   == IndexByte(b, "\n")
        line == IF nl = 0 THEN b ELSE SubSeq(b, 1, nl - 1)
    IN IF line # <<>> /\ line[Len(line)] = "\r" THEN SubSeq(line, 1, Len(line) - 1) ELSE line

DigitChars == <<"0", "1", "2", "3", "4", "5", "6", "7", "8", "9">>

IsDigit(c) == \E d \in 1..10 : DigitChars[d] = c

DigitVal(c) == (CHOOSE d \in 1..10 : DigitChars[d] = c) - 1

\* The status code must be in [100, 599].
StatusAnyNumber(n) == TRUE

StatusInRange(n) == n >= 100 /\ n <= 599

\* readResponseStatusCode: the status code of a status line
\* "<version> <3 digits>[ reason]", 0 for everything else.
ReadResponseStatusCode(b) ==
    LET line == FirstLine(b)
        sp   == IndexByte(line, " ")
    IN IF sp = 0 \/ SubSeq(line, 1, sp - 1) \notin StatusVersions THEN 0
       ELSE IF Len(line) < sp + 3 THEN 0
       ELSE IF \E k \in 1..3 : ~IsDigit(line[sp + k]) THEN 0
       ELSE IF Len(line) > sp + 3 /\ IsDigit(line[sp + 4]) THEN 0
       ELSE LET n == 100 * DigitVal(line[sp + 1]) + 10 * DigitVal(line[sp + 2])
                        + DigitVal(line[sp + 3])
            IN IF StatusInRange(n) THEN n ELSE 0

\* parseResponseStatus: the status code and the status line, (0, "") when the
\* bytes do not start with a status line.
ParseResponseStatus(b) ==
    IF ReadResponseStatusCode(b) = 0 THEN [code |-> 0, statusLine |-> <<>>]
    ELSE [code |-> ReadResponseStatusCode(b), statusLine |-> FirstLine(b)]

Pending == [code |-> -1, statusLine |-> <<>>]

ParseInit ==
    /\ statusInput \in StatusInputs
    /\ statusResult = Pending

ParseIdle ==
    /\ statusInput = [version |-> <<>>, sep |-> <<>>, code |-> <<>>, rest |-> <<>>]
    /\ statusResult = Pending

ParseStatus ==
    /\ statusResult = Pending
    /\ statusResult' = ParseResponseStatus(Bytes(statusInput))
    /\ UNCHANGED <<statusInput, platform, sockVars, lsnVars, dmnVars, flowVars, rpVars, oastVars,
                   ruleVars, cfgVars, drainVars, rwVars>>

-----------------------------------------------------------------------------
(***************************************************************************)
(* The request rewriting helpers, called one at a time.                    *)
(***************************************************************************)
NoRewrite == [fn |-> "none", in |-> <<>>, out |-> <<>>]

RwIdle == rw = NoRewrite

RwUnchangedOthers ==
    UNCHANGED <<platform, sockVars, lsnVars, dmnVars, flowVars, rpVars, oastVars, ruleVars,
                cfgVars, drainVars, parseVars>>

\* PathQueryOpts as replay_send fills it in.
LineOpts(path, query, setQuery, removeQuery) ==
    [NoEdits EXCEPT !.path = path, !.query = query, !.setQuery = setQuery,
                    !.removeQuery = removeQuery]

\* A request with three query parameters, and the requests of the pool.
LineRequests ==
    {[method |-> "GET", path |-> "/old",
      query |-> <<Param("a", "1"), Param("b", "2"), Param("c", "3")>>,
      version |-> "HTTP/1.1", headers |-> <<Header("Host", "a.test")>>, body |-> <<>>]}
       \cup Requests

LineOptsPool ==
    {LineOpts(path, query, setQuery, removeQuery) :
        path \in {"", "/new"},
        query \in {<<>>, <<Param("n", "1"), Param("a", "5")>>},
        setQuery \in {<<>>, <<Param("a", "9")>>, <<Param("a", "9"), Param("d", "4")>>,
                      <<Param("d", "4"), Param("b", "7")>>, <<Param("e", "5"), Param("d", "4")>>},
        removeQuery \in {<<>>, <<"b">>, <<"a">>, <<"a", "c">>}}

\* modifyRequestLine(rawRequest, opts), on the parsed request.
RewriteLine(req, opts) ==
    /\ rw = NoRewrite
    /\ rw' = [fn |-> "line", in |-> [req |-> req, opts |-> opts],
              out |-> ModifyRequestLine(req, opts)]
    /\ RwUnchangedOthers

\* b cut at every c.
RECURSIVE SplitOn(_, _)
SplitOn(b, c) ==
    LET i == IndexByte(b, c)
    IN IF i = 0 THEN <<b>> ELSE <<SubSeq(b, 1, i - 1)>> \o SplitOn(SubSeq(b, i + 1, Len(b)), c)

\* parseRequestLine: method, path, query and version of "METHOD SP target SP
\* version"; the target is cut at its first "?". A line without a space
\* gives four empty strings.
ParseRequestLine(line) ==
    LET sp1    == IndexByte(line, " ")
        rest   == SubSeq(line, sp1 + 1, Len(line))
        sp2    == IndexByte(rest, " ")
        target == IF sp2 = 0 THEN rest ELSE SubSeq(rest, 1, sp2 - 1)
        qm     == IndexByte(target, "?")
    IN IF sp1 = 0
       THEN [method |-> <<>>, path |-> <<>>, query |-> <<>>, version |-> <<>>]
       ELSE [method  |-> SubSeq(line, 1, sp1 - 1),
             path    |-> IF qm = 0 THEN target ELSE SubSeq(target, 1, qm - 1),
             query   |-> IF qm = 0 THEN <<>> ELSE SubSeq(target, qm + 1, Len(target)),
             version |-> IF sp2 = 0 THEN <<>> ELSE SubSeq(rest, sp2 + 1, Len(rest))]

\* The start line of the four parts: "?" is written only before a query that
\* is not empty.
EncodeAlwaysQuestionMark(p) ==
    p.method \o <<" ">> \o p.path \o <<"?">> \o p.query \o <<" ">> \o p.version

EncodeRequestLine(p) ==
    p.method \o <<" ">> \o p.path \o (IF p.query # <<>> THEN <<"?">> \o p.query ELSE <<>>)
       \o <<" ">> \o p.version

\* One "name=value" of a query string.
ParseParam(kv) ==
    LET eq == IndexByte(kv, "=")
    IN IF eq = 0 THEN [name |-> kv, value |-> <<>>]
       ELSE [name |-> SubSeq(kv, 1, eq - 1), value |-> SubSeq(kv, eq + 1, Len(kv))]

ParseQuery(q) ==
    IF q = <<>> THEN <<>> ELSE [k \in 1..Len(SplitOn(q, "&")) |-> ParseParam(SplitOn(q, "&")[k])]

RECURSIVE JoinQuery(_)
JoinQuery(ps) ==
    IF ps = <<>> THEN <<>>
    ELSE Head(ps).name \o <<"=">> \o Head(ps).value
            \o (IF Len(ps) > 1 THEN <<"&">> \o JoinQuery(Tail(ps)) ELSE <<>>)

\* PathQueryOpts.HasModifications
HasModificationsAlways(opts) == TRUE

HasModifications(opts) ==
    opts.path # <<>> \/ opts.query # <<>> \/ opts.setQuery # <<>> \/ opts.removeQuery # <<>>

\* modifyRequestLine on the bytes of a request: without options, or with
\* options that modify nothing, the input itself; else the first line is
\* parsed, edited and written again in front of the rest.
ModifyRequestLineRaw(raw, opts) ==
    IF opts.nil \/ ~HasModifications(opts) THEN raw
    ELSE LET line == FirstLine(raw)
             rest == SubSeq(raw, Len(line) + 1, Len(raw))
             p    == ParseRequestLine(line)
             q0   == IF opts.query # <<>> THEN opts.query ELSE p.query
             q1   == SelectSeq(ParseQuery(q0), LAMBDA x : x.name \notin Range(opts.removeQuery))
             q2   == UpsertAll(q1, [k \in 1..Len(opts.setQuery) |-> ParseParam(opts.setQuery[k])])
         IN EncodeRequestLine([p EXCEPT !.path = IF opts.path # <<>> THEN opts.path ELSE p.path,
                                        !.query = JoinQuery(q2)]) \o rest

RawOpts(nil, path, query, setQuery, removeQuery) ==
    [nil |-> nil, path |-> path, query |-> query, setQuery |-> setQuery,
     removeQuery |-> removeQuery]

NilOpts == RawOpts(TRUE, <<>>, <<>>, <<>>, <<>>)

EmptyOpts == RawOpts(FALSE, <<>>, <<>>, <<>>, <<>>)

RawOptsPool ==
    {NilOpts, EmptyOpts,
     RawOpts(FALSE, <<"/", "n">>, <<>>, <<>>, <<>>),
     RawOpts(FALSE, <<>>, <<"n", "=", "1">>, <<>>, <<>>),
     RawOpts(FALSE, <<>>, <<>>, <<<<"r", "=", "x">>>>, <<>>),
     RawOpts(FALSE, <<>>, <<>>, <<>>, <<<<"i">>>>),
     RawOpts(FALSE, <<"/", "n">>, <<>>, <<<<"i", "=", "9">>, <<"d", "=", "4">>>>, <<<<"r">>>>)}

LineMethods == {<<"G", "E", "T">>,
               <<"P", "O", "S", "T">>}

LineTargets == {<<"/">>,
               <<"/", "a">>,
               <<"/", "a", "?">>,
               <<"/", "a", "?", "q", "=">>,
               <<"/", "a", "?", "i", "=", "1", "&", "r", "=", "u">>}

LineVersions == {<<"H", "T", "T", "P", "/", "1", ".", "1">>,
                <<"H", "T", "T", "P", "/", "2">>}

LineRests == {<<"\r", "\n", "H", "o", "s", "t", ":", " ", "h", "\r", "\n", "\r", "\n">>,
             <<"\r", "\n", "\r", "\n", "h", "i">>}

StartLines ==
    {m \o <<" ">> \o t \o <<" ">> \o v : m \in LineMethods, t \in LineTargets, v \in LineVersions}

RawRequests == {l \o r : l \in StartLines, r \in LineRests}

\* modifyRequestLine(rawRequest, opts), on the bytes.
RewriteRaw(raw, opts) ==
    /\ rw = NoRewrite
    /\ rw' = [fn |-> "raw", in |-> [raw |-> raw, opts |-> opts],
              out |-> ModifyRequestLineRaw(raw, opts)]
    /\ RwUnchangedOthers

\* A start line parsed and written again.
RoundTripLine(line) ==
    /\ rw = NoRewrite
    /\ rw' = [fn |-> "roundtrip", in |-> line,
              out |-> [parsed |-> ParseRequestLine(line),
                       line |-> EncodeRequestLine(ParseRequestLine(line))]]
    /\ RwUnchangedOthers

\* Header blocks of one to MaxBlock headers, names repeated and in mixed case.
MaxBlock == 3

BlockHeaders ==
    {Header("Host", "a.test"), Header("host", "b.test"), Header("Content-Length", "2"),
     Header("X-A", "1")}

HeaderBlocks == UNION {[1..n -> BlockHeaders] : n \in 1..MaxBlock}

HeaderNames == {"Host", "host", "HOST", "Content-Length", "content-length", "X-A"}

\* applyHeaderModifications(headers, sendReq) with remove_headers naming the
\* k-th header of the block and add_headers giving that header back.
RewriteHeaders(hs, k, name) ==
    /\ rw = NoRewrite
    /\ FoldName(name) = FoldName(hs[k].name)
    /\ rw' = [fn |-> "headers", in |-> [hs |-> hs, k |-> k, name |-> name],
              out |-> ApplyHeaderModifications(hs, [removeHeaders |-> <<name>>,
                                                    addHeaders |-> <<hs[k]>>])]
    /\ RwUnchangedOthers

\* The request store on its own: Store, Get, Delete, Clear and Count on
\* entries that carry a creation time (0 is the zero time).
StoreKeys == {"one", "two"}

StoreEntries ==
    [headers : {"h1", "h2"}, body : {<<98>>}, duration : {1, 60}, createdAt : {0, 100}]

NowValues == {1, 2}

\* Store fills the creation time in when the entry has none.
StampAlways(entry, now) == [entry EXCEPT !.createdAt = now]

Stamp(entry, now) == IF entry.createdAt = 0 THEN [entry EXCEPT !.createdAt = now] ELSE entry

StoreDelete(store, id) == [k \in (DOMAIN store) \ {id} |-> store[k]]

StoreCount(store) == Cardinality(DOMAIN store)

StoreCall(fn, id, entry, out) ==
    rw' = [fn |-> fn, in |-> [before |-> replayStore, id |-> id, entry |-> entry], out |-> out]

StoreUnchangedOthers ==
    UNCHANGED <<platform, sockVars, lsnVars, dmnVars, flowVars, lastSend, lastGet, oastVars,
                ruleVars, cfgVars, drainVars, parseVars>>

RequestStoreStore(id, entry, now) ==
    /\ rw = NoRewrite
    /\ replayStore' = StoreEntry(replayStore, id, Stamp(entry, now))
    /\ StoreCall("store", id, entry, now)
    /\ StoreUnchangedOthers

RequestStoreGet(id) ==
    /\ rw = NoRewrite
    /\ StoreCall("get", id, <<>>, StoreGet(replayStore, id))
    /\ UNCHANGED replayStore
    /\ StoreUnchangedOthers

RequestStoreDelete(id) ==
    /\ rw = NoRewrite
    /\ replayStore' = StoreDelete(replayStore, id)
    /\ StoreCall("delete", id, <<>>, <<>>)
    /\ StoreUnchangedOthers

RequestStoreClear ==
    /\ rw = NoRewrite
    /\ replayStore' = <<>>
    /\ StoreCall("clear", "", <<>>, <<>>)
    /\ StoreUnchangedOthers

RequestStoreCount ==
    /\ rw = NoRewrite
    /\ StoreCall("count", "", <<>>, StoreCount(replayStore))
    /\ UNCHANGED replayStore
    /\ StoreUnchangedOthers

\* The helper's result has been taken by its caller.
RewriteReturn ==
    /\ rw # NoRewrite
    /\ rw' = NoRewrite
    /\ RwUnchangedOthers

RestIdle == RuleIdle /\ CfgIdle /\ DrainInit /\ ParseIdle /\ RwIdle

-----------------------------------------------------------------------------
(***************************************************************************)
(* Specifications                                                          *)
(***************************************************************************)
SockPathInit == platform \in Platforms /\ SockInit /\ LsnIdle /\ DmnIdle /\ FlowIdle /\ RpIdle /\ OastIdle /\ RestIdle
SockPathNext == ValidateSocket
SpecSockPath == SockPathInit /\ [][SockPathNext]_vars

ListenerInit == platform \in Platforms /\ SockIdle /\ LsnInit /\ DmnIdle /\ FlowIdle /\ RpIdle /\ OastIdle /\ RestIdle
ListenerNext ==
    \/ \E c \in ConnIds, uid \in UIDs, fault \in CredFaults : Connect(c, uid, fault)
    \/ AcceptConn
    \/ ListenerClose
    \/ AcceptError
    \/ \E c \in ConnIds : ServeConn(c)
SpecListener == ListenerInit /\ [][ListenerNext]_vars

\* The Serve goroutine is scheduled: an enabled Accept step is eventually taken.
\* For the loop's progress darwin is as linux, and one way of failing to read
\* the credentials as the other.
ListenerFairInit == ListenerInit /\ platform \in {"linux", "other"}
ListenerFairNext ==
    \/ \E c \in ConnIds, uid \in UIDs, fault \in {"none", "getsockopt"} : Connect(c, uid, fault)
    \/ AcceptConn
    \/ ListenerClose
    \/ AcceptError
    \/ \E c \in ConnIds : ServeConn(c)
SpecListenerFair ==
    ListenerFairInit /\ [][ListenerFairNext]_vars /\ WF_vars(AcceptConn) /\ WF_vars(AcceptError)

DaemonInit == platform = "linux" /\ SockIdle /\ LsnIdle /\ DmnInit /\ FlowIdle /\ RpIdle /\ OastIdle /\ RestIdle
DaemonNext ==
    \/ \E d \in Daemons : DaemonStart(d)
    \/ \E d \in Daemons : DaemonLock(d)
    \/ \E d \in Daemons, ok \in BOOLEAN : DaemonOpenAdapters(d, ok)
    \/ \E d \in Daemons, ok \in BOOLEAN : DaemonBind(d, ok)
    \/ \E d \in Daemons : DaemonSignal(d)
    \/ \E d \in Daemons : DaemonExit(d)
    \/ \E healthy \in BOOLEAN : ResetProbe(healthy)
    \/ \E delivered \in BOOLEAN : ResetStop(delivered)
    \/ ResetRemoveAll
SpecDaemon == DaemonInit /\ [][DaemonNext]_vars

\* The daemon's lifecycle with its handlers: start, serve, drain, stop.
DrainNext ==
    \/ \E d \in Daemons : DaemonStart(d)
    \/ \E d \in Daemons : DaemonLock(d)
    \/ \E d \in Daemons, ok \in BOOLEAN : DaemonOpenAdapters(d, ok)
    \/ \E d \in Daemons, ok \in BOOLEAN : DaemonBind(d, ok)
    \/ \E d \in Daemons : HandlerBegin(d)
    \/ \E d \in Daemons : HandlerEnd(d)
    \/ \E d \in Daemons : DaemonSignal(d)
    \/ \E d \in Daemons : DaemonStop(d)
    \/ \E d \in Daemons : DrainDeadline(d)
    \/ \E d \in Daemons : DaemonExit(d)
SpecDrain == DaemonInit /\ [][DrainNext]_vars
\* The drain deadline is a timer that fires, and the daemon's shutdown
\* sequence runs once it may.
SpecDrainFair ==
    /\ SpecDrain
    /\ \A d \in Daemons : WF_vars(DrainDeadline(d)) /\ WF_vars(DaemonExit(d))

FlowSpecInit == platform = "linux" /\ SockIdle /\ LsnIdle /\ DmnIdle /\ FlowInit /\ RpInit /\ OastIdle /\ RestIdle
\* Two different requests are enough for a hash to be listed twice and for two
\* hashes to change places.
FlowNext ==
    \/ \E req \in {RequestPool[1], RequestPool[2]} : HistoryAppend(req)
    \/ HistoryDropFirst
    \/ HistoryReverse
    \/ \E l \in Listers : ListBegin(l)
    \/ \E l \in Listers : ListStep(l)
    \/ \E l \in Listers : ListEnd(l)
    \/ \E l \in Listers, id \in 1..nextFlowId : ClientLookup(l, id)
SpecFlow == FlowSpecInit /\ [][FlowNext]_vars

\* replay_send without edits while the remote history shifts.
LookupNext ==
    \/ \E req \in Requests : HistoryAppend(req)
    \/ HistoryDropFirst
    \/ HistoryReverse
    \/ ProxyList
    \/ \E flowId \in 0..nextFlowId : ReplaySend(flowId, NoEdits, FALSE, OneResponse)
    \/ ReplayReturn
    \/ StoreSweep
SpecLookup == FlowSpecInit /\ [][LookupNext]_vars

\* replay_send with every edit on a history that only grows.
ReplayNext ==
    \/ \E req \in Requests : HistoryAppend(req)
    \/ ProxyList
    \/ \E flowId \in 0..nextFlowId, edits \in EditPool, force \in BOOLEAN :
           ReplaySend(flowId, edits, force, OneResponse)
    \/ ReplayReturn
    \/ StoreSweep
SpecReplay == FlowSpecInit /\ [][ReplayNext]_vars

\* replay_send with JSON edits on requests with and without a JSON body.
JSONEdit(path, value) == [path |-> path, value |-> value]

JSONEditPool ==
    { [NoEdits EXCEPT !.setJSON = sj, !.removeJSON = rj] :
        sj \in {<<>>, <<JSONEdit("a", "3")>>, <<JSONEdit("b", "1"), JSONEdit("a", "3")>>},
        rj \in {<<>>, <<"b">>, <<"a">>, <<"a", "b">>} }

JSONNext ==
    \/ \E req \in {RequestPool[1], RequestPool[3]} : HistoryAppend(req)
    \/ ProxyList
    \/ \E flowId \in 1..nextFlowId, edits \in JSONEditPool, force \in BOOLEAN :
           ReplaySend(flowId, edits, force, OneResponse)
    \/ ReplayReturn
    \/ StoreSweep
SpecJSON == FlowSpecInit /\ [][JSONNext]_vars

\* replay_send failing at every stage or succeeding, and replay_get.
FailingEditPool ==
    {NoEdits, [NoEdits EXCEPT !.removeJSON = <<"a">>], [NoEdits EXCEPT !.removeHeaders = <<"host">>]}

ReplayGetNext ==
    \/ \E req \in {RequestPool[1], RequestPool[3]} : HistoryAppend(req)
    \/ ProxyList
    \/ \E flowId \in 0..nextFlowId, edits \in FailingEditPool, force \in BOOLEAN :
           ReplaySend(flowId, edits, force, OneResponse)
    \/ ReplayReturn
    \/ \E id \in 0..MaxReplays : ReplayGet(id)
    \/ ReplayGetReturn
    \/ StoreSweep
SpecReplayGet == FlowSpecInit /\ [][ReplayGetNext]_vars

\* replay_send followed by replay_get, with the sweeper running.
StoreNext ==
    \/ \E req \in Requests : HistoryAppend(req)
    \/ ProxyList
    \/ \E flowId \in 1..nextFlowId : ReplaySend(flowId, NoEdits, TRUE, Responses)
    \/ ReplayReturn
    \/ \E id \in 0..MaxReplays : ReplayGet(id)
    \/ ReplayGetReturn
    \/ StoreSweep
SpecStore == FlowSpecInit /\ [][StoreNext]_vars

SinceArgs == {"", "last"} \cup {Itoa(k) : k \in 1..MaxEvents}

\* Immediate polls and arriving events on one session.
OastPollInit ==
    platform = "linux" /\ SockIdle /\ LsnIdle /\ DmnIdle /\ FlowIdle /\ RpIdle /\ OastOneSession
    /\ RestIdle
OastPollNext ==
    \/ \E sid \in SessionIds : EventArrive(sid)
    \/ \E p \in Pollers, transport \in Transports, since \in SinceArgs, limit \in 0..1,
          outcome \in AdapterOutcomes, allBuffered \in BOOLEAN :
            OastPoll(p, transport, 1, since, "", limit, outcome, allBuffered)
    \/ \E p \in Pollers : PollReturn(p)
SpecOastPoll == OastPollInit /\ [][OastPollNext]_vars

\* Long-polls on one session, with arriving events and the session's deletion.
OastWaitNext ==
    \/ \E sid \in SessionIds : EventArrive(sid)
    \/ \E p \in Pollers, transport \in Transports, sid \in 0..1, waitStr \in WaitArgs,
          outcome \in AdapterOutcomes :
            OastPoll(p, transport, sid, "last", waitStr, 0, outcome, TRUE)
    \/ \E p \in Pollers : PollWake(p)
    \/ \E p \in Pollers : PollTimeout(p)
    \/ \E p \in Pollers : PollCancel(p)
    \/ \E p \in Pollers : PollGone(p)
    \/ \E p \in Pollers : PollReturn(p)
    \/ \E transport \in Transports, outcome \in AdapterOutcomes : OastDelete(transport, 1, outcome)
    \/ OastReturn
SpecOastWait == OastPollInit /\ [][OastWaitNext]_vars
SpecOastWaitFair ==
    /\ SpecOastWait
    /\ \A p \in Pollers : WF_vars(PollWake(p)) /\ WF_vars(PollTimeout(p)) /\ WF_vars(PollGone(p))

\* One caller polling over the command line, the local socket and the gateway.
OastCapNext ==
    \/ EventArrive(1)
    \/ \E sid \in 0..1, since \in {"", "last"}, waitFlag \in WaitArgs,
          outcome \in AdapterOutcomes : CliPoll(1, sid, since, waitFlag, outcome)
    \/ \E transport \in Transports, sid \in 0..1, since \in {"", "last"},
          waitStr \in WaitArgs \cup {"2m0s", "5m0s"}, outcome \in AdapterOutcomes :
            OastPoll(1, transport, sid, since, waitStr, 0, outcome, TRUE)
    \/ PollWake(1)
    \/ PollTimeout(1)
    \/ PollReturn(1)
SpecOastCap == OastPollInit /\ [][OastCapNext]_vars

\* The registry: create, list, get and delete.
OastRegInit ==
    platform = "linux" /\ SockIdle /\ LsnIdle /\ DmnIdle /\ FlowIdle /\ RpIdle /\ OastInit
    /\ RestIdle
OastRegNext ==
    \/ \E transport \in Transports, label \in Labels, outcome \in AdapterOutcomes :
          OastCreate(transport, label, outcome)
    \/ \E transport \in Transports, sid \in 0..MaxSessions, outcome \in AdapterOutcomes :
          OastDelete(transport, sid, outcome)
    \/ \E transport \in Transports, limit \in -1..MaxSessions, outcome \in AdapterOutcomes :
          OastList(transport, limit, outcome)
    \/ \E transport \in Transports, sid \in 0..MaxSessions, eventId \in {"", "1"},
          outcome \in AdapterOutcomes : OastGet(transport, sid, eventId, outcome)
    \/ \E sid \in SessionIds : oastSess[sid].arrived = 0 /\ EventArrive(sid)
    \/ OastReturn
SpecOastReg == OastRegInit /\ [][OastRegNext]_vars

\* Lookups on one session and on an identifier no session has: polls, gets
\* and deletes before and after the session's deletion.
OastLookupNext ==
    \/ EventArrive(1)
    \/ \E transport \in Transports, sid \in 0..2, since \in {"", "last"},
          outcome \in AdapterOutcomes :
            OastPoll(1, transport, sid, since, "", 0, outcome, TRUE)
    \/ PollReturn(1)
    \/ \E transport \in Transports, sid \in 0..2, eventId \in {"", "1", "9"},
          outcome \in AdapterOutcomes : OastGet(transport, sid, eventId, outcome)
    \/ \E transport \in Transports, sid \in 0..2, outcome \in AdapterOutcomes :
          OastDelete(transport, sid, outcome)
    \/ OastReturn
SpecOastLookup == OastPollInit /\ [][OastLookupNext]_vars

\* The five handlers of the local socket, with every kind of request body.
OastSockNext ==
    \/ EventArrive(1)
    \/ \E body \in Bodies, label \in Labels, outcome \in AdapterOutcomes :
          SockCreate(body, label, outcome)
    \/ \E body \in Bodies, sid \in 0..1, since \in {"", "last"}, waitStr \in {"", "300s", "bogus"},
          outcome \in AdapterOutcomes : SockPoll(1, body, sid, since, waitStr, 0, outcome, TRUE)
    \/ \E body \in Bodies, sid \in 0..1, eventId \in {"", "1"}, outcome \in AdapterOutcomes :
          SockGet(body, sid, eventId, outcome)
    \/ \E body \in Bodies, limit \in 0..1, outcome \in AdapterOutcomes :
          SockList(body, limit, outcome)
    \/ \E body \in Bodies, sid \in 0..1, outcome \in AdapterOutcomes :
          SockDelete(body, sid, outcome)
    \/ PollWake(1)
    \/ PollTimeout(1)
    \/ PollCancel(1)
    \/ PollGone(1)
    \/ PollReturn(1)
    \/ OastReturn
SpecOastSock == OastPollInit /\ [][OastSockNext]_vars

\* The same polls over the local socket and over the gateway, side by side.
OastTwinNext ==
    \/ EventArrive(1)
    \/ \E p \in Pollers, sid \in 0..1, since \in {"", "last"},
          waitStr \in {"", "300s", "bogus"}, limit \in 0..1, outcome \in {"ok", "fault"} :
            OastPollRequest(p, IF p = 1 THEN "http" ELSE "mcp", sid, since, waitStr, limit,
                            outcome, TRUE)
    \/ \E p \in Pollers : PollTimeout(p)
    \/ \E p \in Pollers : PollReturn(p)
SpecOastTwin == OastPollInit /\ [][OastTwinNext]_vars

\* One process saving config.json while another loads it.
ConfigSpecInit ==
    /\ platform = "linux" /\ SockIdle /\ LsnIdle /\ DmnIdle /\ FlowIdle /\ RpIdle /\ OastIdle
    /\ RuleIdle /\ CfgInit /\ DrainInit /\ ParseIdle /\ RwIdle
ConfigNext ==
    \/ \E c \in Configs, mode \in {"explore", "test-report"} : SaveBegin(c, mode)
    \/ SaveOpen
    \/ \E upto \in 1..Len(savePc.data) : SaveWrite(upto)
    \/ SaveClose
    \/ Load
    \/ LoadReturn
SpecConfig == ConfigSpecInit /\ [][ConfigNext]_vars

\* Proxy rules: add, update, delete and list.
RuleSpecInit ==
    /\ platform = "linux" /\ SockIdle /\ LsnIdle /\ DmnIdle /\ FlowIdle /\ RpIdle /\ OastIdle
    /\ RuleInit /\ CfgIdle /\ DrainInit /\ ParseIdle /\ RwIdle
RuleInputs ==
    {[type |-> t, match |-> m[1], replace |-> m[2]] :
        t \in {"", "bogus", "request_header"}, m \in {<<"", "">>, <<"x", "">>, <<"", "y">>}}
RuleNext ==
    \/ \E in \in RuleInputs, label \in Labels, ws \in BOOLEAN, outcome \in {"ok", "fault"} :
          RuleAdd(in.type, in.match, in.replace, label, ws, outcome)
    \/ \E ruleId \in 0..MaxRules, in \in RuleInputs, label \in Labels,
          outcome \in {"ok", "fault"} :
            RuleUpdate(ruleId, in.type, in.match, in.replace, label, outcome)
    \/ \E ruleId \in 0..MaxRules, outcome \in {"ok", "fault"} : RuleDelete(ruleId, outcome)
    \/ \E ws \in BOOLEAN, limit \in 0..1, outcome \in {"ok", "fault"} :
          RuleList(ws, limit, outcome)
    \/ RuleReturn
SpecRules == RuleSpecInit /\ [][RuleNext]_vars

\* The rewriting helpers on their own.
RewriteSpecInit ==
    /\ platform = "linux" /\ SockIdle /\ LsnIdle /\ DmnIdle /\ FlowIdle /\ RpIdle /\ OastIdle
    /\ RestIdle
RewriteNext ==
    \/ \E req \in LineRequests, opts \in LineOptsPool : RewriteLine(req, opts)
    \/ \E raw \in RawRequests, opts \in RawOptsPool : RewriteRaw(raw, opts)
    \/ \E line \in StartLines : RoundTripLine(line)
    \/ \E hs \in HeaderBlocks, name \in HeaderNames :
          \E k \in 1..Len(hs) : RewriteHeaders(hs, k, name)
    \/ RewriteReturn
SpecRewrite == RewriteSpecInit /\ [][RewriteNext]_vars

\* The request store's methods in any order.
RequestStoreNext ==
    \/ \E id \in StoreKeys, entry \in StoreEntries, now \in NowValues :
          RequestStoreStore(id, entry, now)
    \/ \E id \in StoreKeys : RequestStoreGet(id)
    \/ \E id \in StoreKeys : RequestStoreDelete(id)
    \/ RequestStoreClear
    \/ RequestStoreCount
    \/ RewriteReturn
SpecRequestStore == RewriteSpecInit /\ [][RequestStoreNext]_vars

\* Status parsing of one response.
ParseSpecInit ==
    /\ platform = "linux" /\ SockIdle /\ LsnIdle /\ DmnIdle /\ FlowIdle /\ RpIdle /\ OastIdle
    /\ RuleIdle /\ CfgIdle /\ DrainInit /\ ParseInit /\ RwIdle
SpecParse == ParseSpecInit /\ [][ParseStatus]_vars

-----------------------------------------------------------------------------
(***************************************************************************)
(* Properties                                                              *)
(***************************************************************************)

\* C1: single-instance discipline. In every reachable state at most one daemon
\* of the working directory is Ready (serving): beside a Ready daemon no other
\* daemon is Ready, and a daemon refused the lock is Stopped with the
\* "already running" diagnostic.
C1_SingleInstance ==
    /\ \A d, e \in Daemons : (dstate[d] = "Ready" /\ dstate[e] = "Ready") => d = e
    /\ \A d \in Daemons : diag[d] = "already running" => dstate[d] = "Stopped"

\* C2: on linux and darwin every connection Accept returned (and every one a
\* handler got) has the daemon's UID and readable credentials; a connection with
\* another UID or unreadable credentials is never handed on, is closed once the
\* listener has seen it, and has had no byte read from or written to it.
C2_PeerUIDChecked ==
    platform \in {"linux", "darwin"} =>
        /\ lastReturn.kind = "conn" =>
              (lastReturn.uid = Getuid /\ lastReturn.fault = "none")
        /\ \A c \in ConnIds :
              /\ conns[c].state \in {"accepted", "served"} =>
                    (conns[c].uid = Getuid /\ conns[c].fault = "none")
              /\ (conns[c].state # "free"
                     /\ (conns[c].uid # Getuid \/ conns[c].fault # "none")) =>
                    /\ conns[c].state \in {"backlog", "rejected"}
                    /\ conns[c].rd = 0 /\ conns[c].wr = 0
                    /\ (\A k \in 1..Len(backlog) : backlog[k] # c) =>
                          conns[c].state = "rejected"

\* A foreign-UID connection has been rejected and an own-UID one served.
C2_Witness ==
    /\ platform = "linux"
    /\ \E c, e \in ConnIds :
          /\ conns[c].state = "rejected" /\ conns[c].uid # Getuid
          /\ conns[c].fault = "none"
          /\ conns[e].state = "served" /\ conns[e].rd = 1

\* C3: rejecting never stops the accept loop. Accept returns only a verified
\* connection or the underlying listener's error (so the Serve loop ends only on
\* that error), and a queued connection that passes the check is eventually
\* returned unless the underlying listener is closed first.
C3_AcceptLoopContinues ==
    /\ [](/\ lastReturn.kind \in {"none", "conn", "err_listener"}
          /\ (~serving => (lastReturn.kind = "err_listener" /\ ~listenerOpen)))
    /\ \A c \in ConnIds :
          (conns[c].state = "backlog" /\ VerifyPeerCredentials(platform, conns[c]) = "ok")
              ~> (conns[c].state = "accepted" \/ ~listenerOpen)

\* Accept returned a connection after the rejection log had filled up.
C3_Witness ==
    /\ lastReturn.kind = "conn"
    /\ lastReturn.rejectsBefore = MaxRejectLog
    /\ serving

\* The five facts of the socket's parent directory, read off the Lstat result.
DirExists      == dirInfo.exists
DirNotSymlink  == dirInfo.kind # "symlink"
DirIsDirectory == dirInfo.kind = "dir"
DirOwnedByUser == dirInfo.uid = Getuid
DirNoGroupOtherWrite ==
    (dirInfo.perm \div 16) % 2 = 0 /\ (dirInfo.perm \div 2) % 2 = 0

C6_AtMostOneIdPerHash ==
    \A a, b \in FlowIds :
        (Bound(flowCache, a) /\ Bound(flowCache, b) /\ flowCache[a].hash = flowCache[b].hash)
            => a = b

\* Two listings in flight have both presented the same request, at different
\* offsets, and received the same identifier while another hash is bound too.
C6_Witness ==
    /\ lst[1].pc = "run" /\ lst[2].pc = "run"
    /\ lst[1].rid # 0 /\ lst[1].rid = lst[2].rid
    /\ lst[1].i # lst[2].i
    /\ nextFlowId > 2

\* The listing step taken by client l between two states.
ListStepTaken(l) == lst[l].pc = "run" /\ lst'[l].pc = "run" /\ lst'[l].i = lst[l].i + 1

\* C7: flow identifiers are stable across listings. A listing step never changes
\* the hash an identifier is bound to; when the listed request's hash is already
\* bound to A the step reports A, mints nothing and changes only A's stored
\* offset (to the offset the request now sits at); and the number of identifiers
\* minted never exceeds the number of distinct hashes bound.
C7_FlowIdsStable ==
    /\ [](nextFlowId - 1 = Cardinality({flowCache[a].hash : a \in {x \in FlowIds : Bound(flowCache, x)}}))
    /\ [][ /\ \A a \in FlowIds : Bound(flowCache, a) => flowCache'[a].hash = flowCache[a].hash
           /\ \A l \in Listers : ListStepTaken(l) =>
                \A a \in FlowIds :
                    flowCache[a].hash = ContentHash(history[lst[l].i + 1]) =>
                        /\ lst'[l].rid = a
                        /\ nextFlowId' = nextFlowId
                        /\ flowCache' = [flowCache EXCEPT ![a].offset = lst[l].i] ]_vars

\* Two requests were listed and given identifiers 1 and 2, the history was
\* re-fetched in reversed order and a listing has gone through both again: the
\* stored offsets are swapped and no third identifier exists.
C7_Witness ==
    /\ Len(history) = 2
    /\ Bound(flowCache, 1) /\ Bound(flowCache, 2)
    /\ ContentHash(history[1]) = flowCache[2].hash /\ flowCache[2].offset = 0
    /\ ContentHash(history[2]) = flowCache[1].hash /\ flowCache[1].offset = 1
    /\ nextFlowId = 3
    /\ \E l \in Listers : lst[l].pc = "run" /\ lst[l].i = 2 /\ lst[l].rid = 1

\* The stages at which replay_send has fetched its base request, and those at
\* which it has finished rewriting it.
PastFetch == {"json_error", "validation_failed", "invalid_timeout", "send_failed", "ok"}
PastRewrite == {"validation_failed", "invalid_timeout", "send_failed", "ok"}

\* C5: the request replay_send goes on to edit and dispatch comes from a history
\* entry whose content hash equals the hash recorded for the flow identifier,
\* also when the remote history has shifted since the last listing.
C5_HashVerified ==
    lastSend.stage \in PastFetch => ContentHash(lastSend.base) = lastSend.hash

ContentLengthHeaders(hs) == {k \in 1..Len(hs) : FoldName(hs[k].name) = "content-length"}

\* C8: the request replay_send validates and dispatches carries exactly one
\* Content-Length header, and its value is the byte length of the final body,
\* whatever the base request and the body override, set_json, remove_json and
\* add_headers edits.
C8_ContentLengthReconciled ==
    lastSend.stage \in PastRewrite =>
        /\ Cardinality(ContentLengthHeaders(lastSend.raw.headers)) = 1
        /\ Atoi(HeaderValue(lastSend.raw.headers, "Content-Length")) = Len(lastSend.raw.body)
        /\ lastSend.sendCalled => lastSend.sent.rawRequest = lastSend.raw

\* A base request with its own Content-Length was given a body override, both
\* JSON edits and an added Content-Length header, and was dispatched.
C8_Witness ==
    /\ lastSend.stage = "ok"
    /\ HasHeader(lastSend.base.headers, "Content-Length")
    /\ lastSend.edits.body # <<>> /\ lastSend.edits.setJSON # <<>>
    /\ lastSend.edits.removeJSON # <<>> /\ lastSend.edits.addHeaders # <<>>
    /\ Len(lastSend.raw.body) # Len(lastSend.base.body)
    /\ lastSend.raw.body # lastSend.edits.body

\* C9: validation gates dispatch. A call that ends in a validation failure has
\* not called the send operation and has stored no replay entry; a call without
\* force whose rewritten request has an issue of severity error ends in a
\* validation failure; a call with force never does.
C9_ValidationGatesDispatch ==
    /\ [](/\ lastSend.stage = "validation_failed" =>
                ~lastSend.sendCalled /\ lastSend.replayId = 0
          /\ (lastSend.stage \in PastRewrite /\ ~lastSend.force /\ HasError(lastSend.issues))
                => lastSend.stage = "validation_failed"
          /\ lastSend.force => lastSend.stage # "validation_failed")
    /\ [][(lastSend.stage = "none" /\ lastSend'.stage = "validation_failed")
            => replayStore' = replayStore]_vars

\* A call without force was refused because its request lacks a Host header.
C9_Witness ==
    /\ lastSend.stage = "validation_failed"
    /\ ~lastSend.force
    /\ HasError(lastSend.issues)
    /\ lastSend.edits.removeHeaders # <<>>

\* C10: every request handed to the send operation has a start line whose
\* version is neither HTTP/2 nor HTTP/2.0.
C10_NoHTTP2Dispatched ==
    lastSend.sendCalled => lastSend.sent.rawRequest.version \notin HTTP2Versions

\* C11: replay round-trip. In the state a successful replay_send leaves, a
\* replay_get of the returned replay-id succeeds, and it returns the response
\* headers the adapter delivered, a base64 body that decodes to the delivered
\* body bytes, and the same duration as the send reported.
C11_ReplayRoundTrip ==
    [][(lastSend.stage = "none" /\ lastSend'.stage = "ok") =>
          LET got == HandleReplayGet(replayStore', lastSend'.replayId) IN
          /\ lastSend'.replayId # 0
          /\ got.kind = "ok"
          /\ got.replayId = lastSend'.replayId
          /\ got.respHeaders = lastSend'.result.headers
          /\ Base64Decode(got.respBody) = lastSend'.result.body
          /\ got.respSize = Len(lastSend'.result.body)
          /\ got.duration = DurationString(lastSend'.result.duration)]_vars

\* A replay_get answered right after the send that stored a four-byte binary
\* body: the body comes back padded base64.
C11_Witness ==
    /\ lastSend.stage = "ok"
    /\ lastGet.kind = "ok"
    /\ lastGet.replayId = lastSend.replayId
    /\ lastGet.respBody = <<"A", "P", "8", "Q", "g", "A", "=", "=">>
    /\ lastGet.duration = "1.5s"
    /\ Cardinality(DOMAIN replayStore) = MaxReplays

\* A step in which poller p is handed a batch by PollSession.
Delivered(p) ==
    /\ pollers[p].state # "done"
    /\ pollers'[p].state = "done"
    /\ pollers'[p].code = "OK"
    /\ pollers'[p].cause # "deleted"

\* What a since "last" poll of the session would be handed now.
Unread(se) == SelectEvents(se, "last", TRUE)

C13_OnlyLastMovesCursor ==
    [][\A p \in Pollers :
          Delivered(p) /\ pollers'[p].since # "last" =>
             LET se    == oastSess[pollers'[p].sid]
                 since == pollers'[p].since
                 after == IF since = "" THEN 0
                          ELSE CHOOSE k \in 1..Len(se.ring) : se.ring[k].id = since
                 want  == [i \in 1..(Len(se.ring) - after) |-> se.ring[after + i]]
             IN /\ oastSess'[pollers'[p].sid].cursor = se.cursor
                /\ Unread(oastSess'[pollers'[p].sid]) = Unread(se)
                /\ since = "" \/ InRing(se, since) =>
                      /\ pollers'[p].limit = 0 => pollers'[p].result = want
                      /\ pollers'[p].limit > 0 =>
                            /\ Len(pollers'[p].result) <= pollers'[p].limit
                            /\ Len(pollers'[p].result) <= Len(want)
                            /\ pollers'[p].result = SubSeq(want, 1, Len(pollers'[p].result))
                            /\ Len(pollers'[p].result) = pollers'[p].limit
                               \/ pollers'[p].result = want]_vars

\* A poll with since "2" handed the one event after it while every buffered
\* event is still unread.
C13_Witness ==
    \E p \in Pollers :
       /\ pollers[p].state = "done" /\ pollers[p].code = "OK"
       /\ pollers[p].since = "2"
       /\ Len(pollers[p].result) = 1 /\ pollers[p].result[1].id = "3"
       /\ oastSess[pollers[p].sid].cursor = 0
       /\ Len(Unread(oastSess[pollers[p].sid])) = 2

\* C14: over a session's lifetime dropped_count never decreases, it increases
\* whenever the full ring overwrites an event no since "last" poll has read,
\* and a poll reports the session's count.
C14_DroppedCountMonotone ==
    [][/\ \A sid \in SessionIds :
             oastSess[sid].live /\ oastSess'[sid].live =>
                /\ oastSess'[sid].dropped >= oastSess[sid].dropped
                /\ /\ oastSess'[sid].arrived # oastSess[sid].arrived
                   /\ Len(oastSess[sid].ring) = RingCap
                   /\ oastSess[sid].ring[1].seq > oastSess[sid].cursor
                   => oastSess'[sid].dropped > oastSess[sid].dropped
       /\ \A p \in Pollers :
             Delivered(p) => pollers'[p].dropped = oastSess[pollers'[p].sid].dropped]_vars

\* A poll reporting one dropped event: the third arrival overwrote the unread
\* first one.
C14_Witness ==
    \E p \in Pollers :
       /\ pollers[p].state = "done" /\ pollers[p].code = "OK"
       /\ pollers[p].dropped = 1
       /\ oastSess[pollers[p].sid].arrived = RingCap + 1
       /\ Len(pollers[p].result) = 2

\* C15: a poll's events are in arrival order, event-ids are pairwise distinct
\* within a session, and the handler's conversion to the API shape keeps the
\* batch's length and order.
C15_ArrivalOrderKept ==
    /\ \A sid \in SessionIds : \A i, j \in 1..Len(oastSess[sid].ring) :
          i < j => /\ oastSess[sid].ring[i].seq < oastSess[sid].ring[j].seq
                   /\ oastSess[sid].ring[i].id # oastSess[sid].ring[j].id
    /\ \A p \in Pollers :
          pollers[p].state = "done" /\ pollers[p].code = "OK" =>
             /\ \A i, j \in 1..Len(pollers[p].result) :
                   i < j => /\ pollers[p].result[i].seq < pollers[p].result[j].seq
                            /\ pollers[p].result[i].id # pollers[p].result[j].id
             /\ Len(pollers[p].events) = Len(pollers[p].result)
             /\ \A k \in 1..Len(pollers[p].result) :
                   /\ pollers[p].events[k].event_id = pollers[p].result[k].id
                   /\ pollers[p].events[k].type = pollers[p].result[k].type
                   /\ pollers[p].events[k].time = FormatRFC3339(pollers[p].result[k].time)

\* A poll answered with the two buffered events, the older one first.
C15_Witness ==
    \E p \in Pollers :
       /\ pollers[p].state = "done" /\ pollers[p].code = "OK"
       /\ Len(pollers[p].events) = 2
       /\ pollers[p].events[1].event_id = "2"
       /\ pollers[p].events[2].event_id = "3"
       /\ pollers[p].events[1].type = "http"

\* C16: on either transport, and from the command line, the wait handed to
\* PollSession is at most 120 seconds whatever the caller asked for, and it is
\* the caller's wait when that is shorter; a wait that does not parse as a
\* duration is rejected (INVALID_REQUEST on the local socket, a tool error on
\* the gateway, a usage error on the command line) without a backend call.
C16_WaitCapped ==
    \A p \in Pollers :
       pollers[p].state # "idle" =>
          /\ pollers[p].wait <= 120
          /\ pollers[p].backendCalled /\ pollers[p].waitArg = "30s" => pollers[p].wait = 30
          /\ pollers[p].backendCalled /\ pollers[p].waitArg \in {"300s", "2m0s", "5m0s"}
                => pollers[p].wait = 120
          /\ pollers[p].waitArg = "bogus" =>
                /\ pollers[p].state = "done"
                /\ ~pollers[p].backendCalled
                /\ pollers[p].code = CASE pollers[p].transport = "http" -> "INVALID_REQUEST"
                                       [] pollers[p].transport = "mcp" -> ToolError
                                       [] OTHER -> "USAGE"

\* A gateway poll that asked for 300 seconds is blocked in PollSession with a
\* wait of 120.
C16_Witness ==
    \E p \in Pollers :
       /\ pollers[p].state = "blocked"
       /\ pollers[p].transport = "mcp"
       /\ pollers[p].waitArg = "300s"
       /\ pollers[p].wait = 120

\* C17: a long-poll that blocks always returns. A blocked poll has a positive
\* wait of at most 120 seconds; it is woken by an arriving event and then
\* carries an event, it returns when its context is cancelled or its session
\* is deleted, and otherwise when its wait has elapsed: no poller stays blocked
\* forever.
C17_LongPollReturns ==
    /\ [](\A p \in Pollers :
             /\ pollers[p].state = "blocked" =>
                   /\ pollers[p].wait > 0 /\ pollers[p].wait <= 120
                   /\ pollers[p].backendCalled
             /\ pollers[p].state = "done" /\ pollers[p].cause = "event" =>
                   /\ pollers[p].events # <<>>
                   /\ pollers[p].code = "OK")
    /\ \A p \in Pollers : (pollers[p].state = "blocked") ~> (pollers[p].state # "blocked")

\* A long-poll that blocked on the empty session and was woken by the first
\* event, which it carries.
C17_Witness ==
    \E p \in Pollers :
       /\ pollers[p].state = "done"
       /\ pollers[p].cause = "event"
       /\ pollers[p].since = "last"
       /\ Len(pollers[p].events) = 1
       /\ pollers[p].events[1].event_id = "1"

\* No two live sessions carry the same non-empty label.
LabelsUnique(sess) ==
    \A s1, s2 \in SessionIds :
       sess[s1].live /\ sess[s2].live /\ sess[s1].label # "" /\ sess[s1].label = sess[s2].label
       => s1 = s2

\* C18 as stated: labels of live sessions are unique, and a create whose label
\* is bound to a live session fails with INVALID_REQUEST and adds no session.
C18_Original ==
    [][/\ LabelsUnique(oastSess')
       /\ lastOast.op = "none" /\ lastOast'.op = "create"
          /\ lastOast'.label # "" /\ LabelBound(oastSess, lastOast'.label)
          /\ lastOast'.err = "label_exists"
          => lastOast'.code = "INVALID_REQUEST" /\ oastSess' = oastSess]_vars

\* C18: in every reachable state no two live sessions carry the same non-empty
\* label. A create whose label is bound to a live session fails and adds no
\* session; the failure is INVALID_REQUEST on the local socket and a tool
\* error without a code on the gateway. A create whose label no live session
\* carries succeeds when the adapter does, also when a deleted session carried
\* the label.
C18_LabelsUnique ==
    [][/\ LabelsUnique(oastSess')
       /\ lastOast.op = "none" /\ lastOast'.op = "create" =>
             LET label   == lastOast'.label
                 collide == label # "" /\ LabelBound(oastSess, label)
             IN /\ collide => /\ lastOast'.code # "OK"
                              /\ oastSess' = oastSess
                              /\ nextSessionId' = nextSessionId
                /\ collide /\ lastOast'.err = "label_exists" =>
                      lastOast'.code = IF lastOast'.transport = "http"
                                       THEN "INVALID_REQUEST" ELSE ToolError
                /\ ~collide /\ lastOast'.err = "" =>
                      /\ lastOast'.code = "OK"
                      /\ lastOast'.sid = nextSessionId
                      /\ oastSess'[lastOast'.sid].live
                      /\ oastSess'[lastOast'.sid].label = label
                      /\ \A sid \in SessionIds \ {lastOast'.sid} : oastSess'[sid] = oastSess[sid]]_vars

\* Label "a" was bound to session 1, freed by deleting it and bound again to
\* session 2; a further create with label "a" on the local socket has just
\* failed with INVALID_REQUEST.
C18_Witness ==
    /\ lastOast.op = "create" /\ lastOast.transport = "http"
    /\ lastOast.label = "a" /\ lastOast.err = "label_exists"
    /\ lastOast.code = "INVALID_REQUEST"
    /\ ~oastSess[1].live /\ oastSess[1].label = "a"
    /\ oastSess[2].live /\ oastSess[2].label = "a"

\* C19: oast.list returns the live sessions sorted by creation time, newest
\* first; with limit > 0 exactly the first min(limit, n) of that order, so that
\* no omitted session is newer than a returned one, and with limit <= 0 all n.
C19_ListNewestFirst ==
    lastOast.op = "list" /\ lastOast.code = "OK" =>
       LET live == {sid \in SessionIds : oastSess[sid].live}
           n    == Cardinality(live)
           out  == lastOast.sessions
           ids  == {out[i].oast_id : i \in 1..Len(out)}
       IN /\ Len(out) = IF lastOast.limit > 0 /\ lastOast.limit < n THEN lastOast.limit ELSE n
          /\ ids \subseteq live
          /\ Cardinality(ids) = Len(out)
          /\ \A i, j \in 1..Len(out) :
                i < j => oastSess[out[i].oast_id].createdAt >= oastSess[out[j].oast_id].createdAt
          /\ \A sid \in live \ ids : \A i \in 1..Len(out) :
                oastSess[out[i].oast_id].createdAt >= oastSess[sid].createdAt
          /\ \A i \in 1..Len(out) :
                /\ out[i].label = oastSess[out[i].oast_id].label
                /\ out[i].created_at = FormatRFC3339(oastSess[out[i].oast_id].createdAt)

\* A list with limit 1 over two live sessions created at different times
\* returned the newer one only.
C19_Witness ==
    /\ lastOast.op = "list" /\ lastOast.code = "OK" /\ lastOast.limit = 1
    /\ oastSess[1].live /\ oastSess[2].live
    /\ oastSess[2].createdAt > oastSess[1].createdAt
    /\ Len(lastOast.sessions) = 1
    /\ lastOast.sessions[1].oast_id = 2

\* C20: on the local socket, where answers carry an envelope code, an adapter
\* failure that satisfies IsTimeoutError is reported to the caller as TIMEOUT,
\* and an adapter fault as BACKEND_ERROR, by every handler that calls the
\* adapter.
C20_TimeoutReported ==
    /\ \A p \in Pollers :
          pollers[p].state = "done" /\ pollers[p].backendCalled
          /\ pollers[p].transport = "http" =>
             /\ IsTimeoutError(pollers[p].err) => pollers[p].code = "TIMEOUT"
             /\ pollers[p].err = "fault" => pollers[p].code = "BACKEND_ERROR"
    /\ lastOast.op # "none" /\ lastOast.transport = "http" =>
          /\ IsTimeoutError(lastOast.err) => lastOast.code = "TIMEOUT"
          /\ lastOast.err = "fault" => lastOast.code = "BACKEND_ERROR"

\* C21: on the local socket a poll, get or delete whose identifier matches no
\* live session, and a get of an event the session does not hold, is answered
\* NOT_FOUND when the backend itself does not fail, and leaves the registry
\* unchanged; a successful delete ends the session, and a session that has
\* ended stays ended, so every later poll, get or delete of it is NOT_FOUND.
C21_UnknownIsNotFound ==
    [][/\ \A p \in Pollers :
             /\ pollers[p].state = "idle" /\ pollers'[p].state = "done"
             /\ pollers'[p].transport = "http" /\ pollers'[p].sid # 0
             /\ ~Live(oastSess, pollers'[p].sid)
             /\ pollers'[p].err \notin {"timeout", "fault"}
             => /\ pollers'[p].code = "NOT_FOUND"
                /\ pollers'[p].events = <<>>
                /\ oastSess' = oastSess
       /\ /\ lastOast.op = "none" /\ lastOast'.op \in {"get", "delete"}
          /\ lastOast'.transport = "http" /\ lastOast'.sid # 0
          /\ lastOast'.op = "get" => lastOast'.eventId # ""
          /\ lastOast'.err \notin {"timeout", "fault"}
          /\ \/ ~Live(oastSess, lastOast'.sid)
             \/ lastOast'.op = "get" /\ ~InRing(oastSess[lastOast'.sid], lastOast'.eventId)
          => /\ lastOast'.code = "NOT_FOUND"
             /\ lastOast'.event = <<>>
             /\ oastSess' = oastSess /\ nextSessionId' = nextSessionId
       /\ lastOast.op = "none" /\ lastOast'.op = "delete" /\ lastOast'.code = "OK"
          => Live(oastSess, lastOast'.sid) /\ ~Live(oastSess', lastOast'.sid)
       /\ \A sid \in SessionIds :
             sid < nextSessionId /\ ~oastSess[sid].live => ~oastSess'[sid].live]_vars

\* A get of event "1" of session 1, which received that event and was then
\* deleted, answered NOT_FOUND.
C21_Witness ==
    /\ lastOast.op = "get" /\ lastOast.transport = "http"
    /\ lastOast.sid = 1 /\ lastOast.eventId = "1"
    /\ lastOast.code = "NOT_FOUND"
    /\ ~oastSess[1].live /\ nextSessionId = 2

\* C22 as stated: an adapter failure that is neither a sentinel error nor a
\* timeout surfaces as INTERNAL_ERROR with the original message in details.
C22_Original ==
    lastOast.op # "none" /\ lastOast.transport = "http" /\ lastOast.err = "fault" =>
       lastOast.code = "INTERNAL_ERROR" /\ lastOast.details = ErrorText("fault")

\* C22: on the local socket an adapter failure that is neither a sentinel
\* error (ErrNotFound, ErrLabelExists) nor a timeout surfaces to the caller as
\* BACKEND_ERROR with the original error message in the details member, from
\* create, list, get and delete alike.
C22_FaultIsBackendError ==
    lastOast.op # "none" /\ lastOast.transport = "http" /\ lastOast.err = "fault" =>
       /\ lastOast.code = "BACKEND_ERROR"
       /\ lastOast.details = "connection refused"

\* A list on the local socket whose ListSessions call failed with a fault.
C22_Witness ==
    /\ lastOast.op = "list" /\ lastOast.transport = "http"
    /\ lastOast.err = "fault" /\ lastOast.code = "BACKEND_ERROR"
    /\ lastOast.details # ""
    /\ \E sid \in SessionIds : oastSess[sid].live

\* C23: a rule add or update reaches the proxy adapter only if its type is one
\* of the four scope values and at least one of match and replace is
\* non-empty; otherwise the operation fails and the rule set is unchanged. A
\* label that another live rule of the same websocket class carries makes
\* add/update fail with the rule set unchanged.
C23_RuleInputChecked ==
    [][lastRule.op = "none" /\ lastRule'.op \in {"add", "update"} =>
          LET ws      == IF lastRule'.op = "add" THEN lastRule'.ws
                         ELSE IF lastRule'.ruleId \in RuleIds(rules)
                              THEN RuleAt(rules, lastRule'.ruleId).ws ELSE FALSE
              target  == IF lastRule'.op = "add" THEN 0 ELSE lastRule'.ruleId
              collide == /\ lastRule'.label # ""
                         /\ lastRule'.op = "update" => lastRule'.ruleId \in RuleIds(rules)
                         /\ \E k \in 1..Len(rules) :
                               /\ rules[k].label = lastRule'.label
                               /\ rules[k].ws = ws
                               /\ rules[k].id # target
          IN /\ lastRule'.adapterCalled =>
                   /\ lastRule'.type \in {"request_header", "request_body",
                                          "response_header", "response_body"}
                   /\ lastRule'.match # "" \/ lastRule'.replace # ""
             /\ ~lastRule'.adapterCalled => lastRule'.isError /\ rules' = rules
             /\ collide => lastRule'.isError /\ rules' = rules
             /\ lastRule'.isError => rules' = rules /\ nextRuleId' = nextRuleId]_vars

\* An add with a valid type but neither match nor replace was refused before
\* the adapter, while a rule exists.
C23_Witness ==
    /\ lastRule.op = "add" /\ lastRule.type = "request_header"
    /\ lastRule.match = "" /\ lastRule.replace = ""
    /\ lastRule.isError /\ ~lastRule.adapterCalled
    /\ Len(rules) = 1

\* C24 as stated: every successful rule list of a websocket class contains
\* exactly one entry for every rule of that class that was added and not
\* deleted, and no entry for any other rule.
C24_Original ==
    lastRule.op = "list" /\ ~lastRule.isError =>
       /\ \A k \in 1..Len(rules) :
             rules[k].ws = lastRule.ws =>
                Cardinality({i \in 1..Len(lastRule.listed) :
                                lastRule.listed[i].id = rules[k].id}) = 1
       /\ \A i \in 1..Len(lastRule.listed) : lastRule.listed[i].id \in RuleIds(rules)

\* C24: for every rule-id r returned by a successful add and not yet deleted,
\* every successful list of r's websocket class issued without a limit, or
\* with a limit not below the number of rules of the class, contains exactly
\* one entry whose id is r; a list with a smaller positive limit contains the
\* first limit rules of the class, each once. No list contains a deleted rule
\* or a rule of the other class, and rule-ids are not reused.
C24_ListedExactlyOnce ==
    /\ \A i, j \in 1..Len(rules) : i # j => rules[i].id # rules[j].id
    /\ \A k \in 1..Len(rules) : rules[k].id < nextRuleId
    /\ lastRule.op = "list" /\ ~lastRule.isError =>
          LET class == {rules[k].id : k \in {k \in 1..Len(rules) : rules[k].ws = lastRule.ws}}
              count(r) == Cardinality({i \in 1..Len(lastRule.listed) :
                                          lastRule.listed[i].id = r})
          IN /\ \A i \in 1..Len(lastRule.listed) : lastRule.listed[i].id \in class
             /\ \A r \in class : count(r) <= 1
             /\ lastRule.limit <= 0 \/ lastRule.limit >= Cardinality(class) =>
                   \A r \in class : count(r) = 1
             /\ lastRule.limit > 0 /\ lastRule.limit < Cardinality(class) =>
                   Len(lastRule.listed) = lastRule.limit

\* An unlimited list after rule 1 was deleted: it holds rule 2 only.
C24_Witness ==
    /\ lastRule.op = "list" /\ ~lastRule.isError /\ lastRule.limit = 0
    /\ nextRuleId = 3
    /\ Len(lastRule.listed) = 1
    /\ lastRule.listed[1].id = 2
    /\ Len(rules) = 1

\* C25: status parsing returns the numeric status code exactly when the input
\* starts with a status line of version HTTP/1.0, HTTP/1.1, HTTP/2 or HTTP/2.0
\* followed by a space and a three-digit integer in [100, 599], and then it
\* returns the status line with it; for every other input (empty, no HTTP
\* prefix, no space, non-digits, fewer than three digits, 099, 600) it returns
\* 0 and no status line.
C25_StatusCodeParsed ==
    statusResult # Pending =>
       LET in    == statusInput
           wellFormed ==
               /\ in.version \in {<<"H", "T", "T", "P", "/", "1", ".", "0">>,
                               <<"H", "T", "T", "P", "/", "1", ".", "1">>,
                               <<"H", "T", "T", "P", "/", "2">>,
                               <<"H", "T", "T", "P", "/", "2", ".", "0">>}
               /\ in.sep = <<" ">>
               /\ in.code \in {<<"2", "0", "0">>,
                            <<"4", "0", "4">>,
                            <<"1", "0", "0">>,
                            <<"5", "9", "9">>}
           number == CASE in.code = <<"2", "0", "0">> -> 200
                       [] in.code = <<"4", "0", "4">> -> 404
                       [] in.code = <<"1", "0", "0">> -> 100
                       [] in.code = <<"5", "9", "9">> -> 599
                       [] OTHER -> 0
       IN /\ statusResult.code = IF wellFormed THEN number ELSE 0
          /\ statusResult.code = 0 => statusResult.statusLine = <<>>
          /\ statusResult.code # 0 =>
                \E k \in 0..Len(in.rest) :
                   statusResult.statusLine = in.version \o in.sep \o in.code \o SubSeq(in.rest, 1, k)

\* HTTP/2 599 with a reason phrase parsed to 599.
C25_Witness ==
    /\ statusInput.version = <<"H", "T", "T", "P", "/", "2">>
    /\ statusInput.rest = <<" ", "O", "K", "\r", "\n">>
    /\ statusResult.code = 599
    /\ statusResult.statusLine = <<"H", "T", "T", "P", "/", "2", " ", "5", "9", "9", " ", "O", "K">>

\* What a poll call was given, and what it answered at the time of the call.
SamePollCall(a, b) ==
    /\ a.sid = b.sid /\ a.since = b.since /\ a.waitArg = b.waitArg /\ a.limit = b.limit
    /\ a.outcome = b.outcome /\ a.seen = b.seen

AnsweredAtCall(a) == a.state = "blocked" \/ (a.state = "done" /\ a.cause \in {"", "immediate"})

LifecycleSteps ==
    {<<"NotStarted", "Starting">>, <<"Starting", "Ready">>, <<"Ready", "Draining">>,
     <<"Draining", "Stopped">>, <<"Starting", "Stopped">>}

C28_LoadSeesWholeDocument ==
    loaded.kind # "none" =>
       /\ loaded.kind = "ok"
       /\ savePc.pc # "idle" => loaded.data \in {savePc.prev, savePc.data}

\* C29: when replay_send is given a literal body override, the body that is
\* sent is exactly the override and set_json/remove_json are not applied to
\* it (so they cannot fail on it either).
C29_BodyOverrideExclusive ==
    (lastSend.stage # "none" /\ lastSend.edits.body # <<>>)
       => /\ lastSend.stage # "json_error"
          /\ lastSend.sendCalled => lastSend.sent.rawRequest.body = lastSend.edits.body

\* C30: when replay_send has no target override and the rewritten request has
\* no Host header, the call fails, the adapter's send is not called and no
\* replay entry is stored.
C30_MissingHostFails ==
    (/\ lastSend.stage # "none"
     /\ lastSend.edits.target = ""
     /\ lastSend.raw # NoRequest /\ ~HasHeader(lastSend.raw.headers, "Host"))
       => /\ ~lastSend.sendCalled
          /\ lastSend.stage # "ok"
          /\ lastSend.replayId = 0

\* The names of a sequence of parameters, and the value last given to a name.
Names(ps) == {ps[k].name : k \in 1..Len(ps)}

LastValue(ps, n) ==
    ps[CHOOSE k \in 1..Len(ps) : ps[k].name = n /\ \A j \in (k + 1)..Len(ps) : ps[j].name # n].value

\* First occurrences of the names of ps that are not in old, in the order given.
NewNames(ps, old) ==
    SelectSeq([k \in 1..Len(ps) |->
                 IF ps[k].name \notin old /\ \A j \in 1..(k - 1) : ps[j].name # ps[k].name
                 THEN ps[k].name ELSE ""],
              LAMBDA n : n # "")

\* C31: request-line rewriting applies path, whole query, remove_query,
\* set_query in that order. A key in both remove_query and set_query is
\* present with the set value; a set_query on a key that is in the query
\* replaces the value at the key's position; new keys are appended in the
\* order given; untouched keys keep their order; method, version, headers and
\* body are unchanged.
C31_LineRewriteOrder ==
    rw.fn = "line" =>
       LET req   == rw.in.req
           opts  == rw.in.opts
           out   == rw.out
           q0    == IF opts.query # <<>> THEN opts.query ELSE req.query
           kept  == SelectSeq(q0, LAMBDA x : x.name \notin Range(opts.removeQuery))
           fresh == NewNames(opts.setQuery, Names(kept))
       IN /\ out.method = req.method /\ out.version = req.version
          /\ out.headers = req.headers /\ out.body = req.body
          /\ out.path = IF opts.path # "" THEN opts.path ELSE req.path
          /\ \A n \in Names(opts.setQuery) :
                \E k \in 1..Len(out.query) :
                   out.query[k].name = n /\ out.query[k].value = LastValue(opts.setQuery, n)
          /\ Len(out.query) = Len(kept) + Len(fresh)
          /\ \A k \in 1..Len(kept) :
                /\ out.query[k].name = kept[k].name
                /\ kept[k].name \notin Names(opts.setQuery) => out.query[k].value = kept[k].value
          /\ \A k \in 1..Len(fresh) : out.query[Len(kept) + k].name = fresh[k]

\* The query a=1&b=2&c=3 was rewritten with remove_query a, c and set_query
\* a=9, d=4: b keeps its place, a comes back with the set value behind it.
C31_Witness ==
    /\ rw.fn = "line"
    /\ rw.in.opts.removeQuery = <<"a", "c">>
    /\ rw.in.opts.setQuery = <<Param("a", "9"), Param("d", "4")>>
    /\ rw.out.query = <<Param("b", "2"), Param("a", "9"), Param("d", "4")>>

\* The target of a start line ends in a "?" with nothing behind it.
BareQuestionMark(line) ==
    \E k \in 1..(Len(line) - 1) :
       /\ line[k] = "?" /\ line[k + 1] = " "
       /\ \A j \in 1..(k - 1) : line[j] # "?"

WithoutByte(line, k) == SubSeq(line, 1, k - 1) \o SubSeq(line, k + 1, Len(line))

NoEditRewriteIsInput ==
    rw.fn = "raw" /\ (rw.in.opts = NilOpts \/ rw.in.opts = EmptyOpts) => rw.out = rw.in.raw

LastAndOnly(hs, k) ==
    /\ k = Len(hs)
    /\ \A j \in 1..(k - 1) : FoldName(hs[j].name) # FoldName(hs[k].name)

JSONEdited ==
    /\ lastSend.stage \in PastFetch
    /\ lastSend.edits.body = <<>>
    /\ lastSend.edits.setJSON # <<>> \/ lastSend.edits.removeJSON # <<>>

\* The value the edits leave for member k of object o: "" when it is absent.
EditedMember(o, k, edits) ==
    IF \E i \in 1..Len(edits.setJSON) : edits.setJSON[i].path = k
    THEN edits.setJSON[CHOOSE i \in 1..Len(edits.setJSON) :
                          /\ edits.setJSON[i].path = k
                          /\ \A j \in (i + 1)..Len(edits.setJSON) : edits.setJSON[j].path # k].value
    ELSE IF k \in Range(edits.removeJSON) \/ k \notin DOMAIN o THEN "" ELSE o[k]

MemberOf(o, k) == IF k \in DOMAIN o THEN o[k] ELSE ""

\* C34: JSON body edits apply every remove_json before any set_json, so a path
\* in both lists is present with the set value; the body {"a":1,"b":2} with
\* set_json a=3 and remove_json b becomes {"a":3} with Content-Length 7; a body
\* that is not JSON makes the edit fail and nothing is dispatched.
C34_JSONEdits ==
    JSONEdited =>
       LET base == ParseJSON(lastSend.base.body)
           raw  == lastSend.raw
       IN IF ~base.ok
          THEN lastSend.stage = "json_error" /\ ~lastSend.sendCalled
          ELSE /\ lastSend.stage \in PastRewrite
               /\ ParseJSON(raw.body).ok
               /\ \A k \in {"a", "b"} :
                     MemberOf(ParseJSON(raw.body).obj, k) = EditedMember(base.obj, k, lastSend.edits)
               /\ HeaderValue(raw.headers, "Content-Length") = Itoa(Len(raw.body))
               /\ lastSend.sendCalled => lastSend.sent.rawRequest = raw
               /\ (/\ lastSend.base.body = <<"{", "\"", "a", "\"", ":", "1", ",", "\"", "b", "\"", ":", "2", "}">>
                    /\ lastSend.edits.setJSON = <<JSONEdit("a", "3")>>
                    /\ lastSend.edits.removeJSON = <<"b">>)
                      => /\ raw.body = <<"{", "\"", "a", "\"", ":", "3", "}">>
                         /\ HeaderValue(raw.headers, "Content-Length") = "7"

\* The body {"a":1,"b":2} was sent with remove_json a, b and set_json b=1,
\* a=3: both members are in the body that went out, with the set values.
C34_Witness ==
    /\ JSONEdited /\ lastSend.stage = "ok"
    /\ lastSend.base.body = <<"{", "\"", "a", "\"", ":", "1", ",", "\"", "b", "\"", ":", "2", "}">>
    /\ lastSend.edits.removeJSON = <<"a", "b">>
    /\ lastSend.edits.setJSON = <<JSONEdit("b", "1"), JSONEdit("a", "3")>>
    /\ lastSend.sent.rawRequest.body = <<"{", "\"", "a", "\"", ":", "3", ",", "\"", "b", "\"", ":", "1", "}">>

\* The answer of the socket's create, get, list or delete handler, or of its
\* poll handler, that is on its way to the caller.
SockAnswers ==
    (IF lastOast.op # "none" THEN {lastOast} ELSE {})
       \cup {[op |-> "poll", body |-> pollers[p].body, sid |-> pollers[p].sid,
              code |-> pollers[p].code, calls |-> pollers[p].calls,
              envelopes |-> pollers[p].envelopes, eventId |-> "", label |-> "", limit |-> 0] :
                p \in {q \in Pollers : pollers[q].state = "done"}}

Rejected(a) == a.code = "INVALID_REQUEST" /\ a.calls = 0

\* C35: an OAST poll, get or delete request whose body cannot be decoded or
\* whose oast_id is empty, and a get with an empty event_id, is answered with
\* INVALID_REQUEST and the backend is not called; create and list accept an
\* empty body and call the backend with an empty label and without a limit.
C35_InvalidRequest ==
    \A a \in SockAnswers :
       /\ a.op \in {"poll", "get", "delete"} /\ (a.body # "json" \/ a.sid = 0) => Rejected(a)
       /\ a.op = "get" /\ a.eventId = "" => Rejected(a)
       /\ a.op \in {"create", "list"} /\ a.body = "garbage" => Rejected(a)
       /\ a.op = "create" /\ a.body = "empty" => a.calls = 1 /\ a.label = ""
       /\ a.op = "list" /\ a.body = "empty" => a.calls = 1 /\ a.limit = 0

\* A delete whose body broke off behind the oast_id of the live session was
\* rejected, and the session is still there.
C35_Witness ==
    /\ lastOast.op = "delete" /\ lastOast.body = "garbage" /\ lastOast.sid = 1
    /\ Rejected(lastOast)
    /\ Live(oastSess, 1)

\* C38: every invocation of a socket OAST handler (create, poll, get, list,
\* delete) writes exactly one envelope on every path, a success or an error,
\* never both and never none, and calls the backend at most once. A long-poll
\* that is still blocked inside its one backend call has written nothing yet.
C38_OneEnvelope ==
    /\ \A a \in SockAnswers :
          /\ Len(a.envelopes) = 1
          /\ a.envelopes[1] = a.code
          /\ a.calls <= 1
    /\ \A p \in Pollers :
          pollers[p].state = "blocked" => pollers[p].envelopes = <<>> /\ pollers[p].calls = 1

\* A long-poll blocked, its wait elapsed, and it was answered: one success
\* envelope after one backend call.
C38_Witness ==
    /\ pollers[1].state = "done" /\ pollers[1].cause = "timeout"
    /\ pollers[1].envelopes = <<"OK">>
    /\ pollers[1].calls = 1

\* One when id is a key of the store, else zero.
Holds(store, id) == IF id \in DOMAIN store THEN 1 ELSE 0

OthersKept(before, after, id) ==
    /\ DOMAIN after \ {id} = DOMAIN before \ {id}
    /\ \A k \in DOMAIN after \ {id} : after[k] = before[k]

\* C36: the replay store behaves as a map from id to entry. Count is the
\* number of distinct ids stored and not deleted or cleared; Get hits exactly
\* for those ids and returns the headers, body and duration last stored;
\* Delete makes Get miss and lowers Count by one; Clear makes Count zero;
\* Store fills in the creation time only when the entry's is zero.
C36_StoreIsMap ==
    LET before == rw.in.before
        id     == rw.in.id
        e      == rw.in.entry
    IN /\ rw.fn = "store" =>
             /\ StoreGet(replayStore, id).ok
             /\ replayStore[id].headers = e.headers /\ replayStore[id].body = e.body
             /\ replayStore[id].duration = e.duration
             /\ replayStore[id].createdAt = IF e.createdAt = 0 THEN rw.out ELSE e.createdAt
             /\ replayStore[id].createdAt # 0
             /\ StoreCount(replayStore) = StoreCount(before) + 1 - Holds(before, id)
             /\ OthersKept(before, replayStore, id)
       /\ rw.fn = "get" =>
             /\ rw.out.ok <=> id \in DOMAIN replayStore
             /\ rw.out.ok => rw.out.entry = replayStore[id]
             /\ replayStore = before
       /\ rw.fn = "delete" =>
             /\ ~StoreGet(replayStore, id).ok
             /\ StoreCount(replayStore) = StoreCount(before) - Holds(before, id)
             /\ OthersKept(before, replayStore, id)
       /\ rw.fn = "clear" =>
             /\ StoreCount(replayStore) = 0
             /\ \A k \in StoreKeys : ~StoreGet(replayStore, k).ok
       /\ rw.fn = "count" =>
             /\ rw.out = Cardinality({k \in StoreKeys : StoreGet(replayStore, k).ok})
             /\ replayStore = before

\* An entry with its own creation time was stored over an id that was
\* there, next to a second id: the count is still two and the time is kept.
C36_Witness ==
    /\ rw.fn = "store" /\ rw.in.id = "one"
    /\ DOMAIN rw.in.before = StoreKeys
    /\ rw.in.before["one"].createdAt \in NowValues
    /\ rw.in.before["one"].headers # rw.in.entry.headers
    /\ replayStore["one"].createdAt = 100
    /\ StoreCount(replayStore) = 2

\* The store has a key, or an entry under a key, that it did not have before.
StoreGains ==
    \E id \in DOMAIN replayStore' : id \notin DOMAIN replayStore \/ replayStore'[id] # replayStore[id]

FailedStages ==
    {"flow_id_required", "not_found", "fetch_error", "fetch_empty", "json_error",
     "validation_failed", "invalid_timeout", "send_failed"}

\* C37: the replay store gains an entry only from a replay_send whose
\* dispatch succeeded, under the id that call returns; a call that fails at
\* flow lookup, history fetch, JSON editing, validation, timeout parsing or
\* dispatch leaves the store unchanged; a replay_get hits only an id that is
\* in the store, so an id no successful send returned is reported not found.
C37_StoreOnlyOnSuccess ==
    [][/\ StoreGains =>
            /\ lastSend.stage = "none" /\ lastSend'.stage = "ok" /\ lastSend'.sendCalled
            /\ lastSend'.replayId \notin DOMAIN replayStore
            /\ replayStore' = StoreEntry(replayStore, lastSend'.replayId, lastSend'.result)
       /\ lastSend.stage = "none" /\ lastSend'.stage \in FailedStages =>
            replayStore' = replayStore
       /\ lastGet.kind = "none" /\ lastGet'.kind # "none" =>
            /\ lastGet'.kind = "ok" <=> lastGet'.replayId \in DOMAIN replayStore
            /\ lastGet'.replayId # 0 /\ lastGet'.replayId \notin DOMAIN replayStore
                   => lastGet'.kind = "not_found"]_vars

\* A send was dispatched and failed, the store is empty, and the replay_get
\* of an id was answered not found.
C37_Witness ==
    /\ lastSend.stage = "send_failed" /\ lastSend.sendCalled
    /\ replayStore = <<>>
    /\ lastGet.kind = "not_found" /\ lastGet.replayId = 1

\* A daemon process that holds its lock and has not stopped.
DaemonLive(d) == dstate[d] \in {"Starting", "Ready", "Draining"} /\ dlocked[d]

\* C39: init --reset cannot break the single-instance discipline. With a
\* daemon running, a performReset (health probe, stop request, removal of the
\* state root) and a later daemon start, there are never two live daemons for
\* the working directory, and a live daemon never has its PID file and lock
\* or its socket removed from under it.
C39_ResetKeepsSingleInstance ==
    /\ \A d, e \in Daemons : DaemonLive(d) /\ DaemonLive(e) => d = e
    /\ \A d \in Daemons :
          /\ DaemonLive(d) => pidFile = dfd[d]
          /\ dstate[d] = "Ready" => sockFile = d
====
